---- MODULE Spec2Model ----
(***************************************************************************)
(* Email scanner decision engine of agents/email_scanner:                  *)
(*   EmailClassifier, PatternMatcher, EmailScanner (scanner.py) and the    *)
(*   parts of GmailClient (gmail_client.py) that EmailScanner.scan drives. *)
(*                                                                         *)
(* Text is modelled at token granularity: a subject, a body, a sender or a *)
(* file name is a sequence of tokens, a pattern is evaluated on tokens.    *)
(* Scores are Python floats; they are modelled as IEEE-754 binary64 values *)
(* (see the Dbl section), so that 0.30 + 0.15 is what the program          *)
(* computes and not the rational 0.45.                                     *)
(***************************************************************************)
EXTENDS Integers, Sequences, FiniteSets, TLC

(***************************************************************************)
(* Dbl: binary64 values v with |v| < 4 that are multiples of 2^-58, kept   *)
(* as sign and magnitude, the magnitude m = |v| * 2^58 in two limbs        *)
(* m = hi * 2^29 + lo.  Every constant and every intermediate result of    *)
(* the scoring code is of that form.                                       *)
(***************************************************************************)
Dbl(h, l) == [neg |-> FALSE, hi |-> h, lo |-> l]

DZero == Dbl(0, 0)

RECURSIVE Pow2(_)
Pow2(k) == IF k = 0 THEN 1 ELSE 2 * Pow2(k - 1)

RECURSIVE BitLen(_)
BitLen(n) == IF n = 0 THEN 0 ELSE 1 + BitLen(n \div 2)

Limb == Pow2(29)

DOne == Dbl(Limb, 0)

\* Round a magnitude to 53 significant bits, ties to even (the rounding of
\* every binary64 operation).  At most 7 low bits are dropped, all in lo.
RoundMag(h, l) ==
  LET Carry(l2)    == IF l2 >= Limb THEN <<h + 1, l2 - Limb>> ELSE <<h, l2>>
      Round(q, r)  == Carry(IF (2 * r > q) \/ (2 * r = q /\ ((l - r) \div q) % 2 = 1)
                            THEN l - r + q ELSE l - r)
      Drop(q)      == Round(q, l % q)
      Bits(n)      == Drop(Pow2(IF n > 24 THEN n - 24 ELSE 0))
  IN  Bits(BitLen(h))

MagLt(a, b) == a.hi < b.hi \/ (a.hi = b.hi /\ a.lo < b.lo)

MagAdd(a, b) ==
  LET Sum(h, l) == IF l >= Limb THEN RoundMag(h + 1, l - Limb) ELSE RoundMag(h, l)
  IN  Sum(a.hi + b.hi, a.lo + b.lo)

\* a - b for magnitudes with b <= a
MagSub(a, b) ==
  IF a.lo < b.lo THEN RoundMag(a.hi - b.hi - 1, a.lo + Limb - b.lo)
  ELSE RoundMag(a.hi - b.hi, a.lo - b.lo)

Norm(n, m) == [neg |-> n /\ (m[1] # 0 \/ m[2] # 0), hi |-> m[1], lo |-> m[2]]

\* a + b
FAdd(a, b) ==
  IF a.neg = b.neg THEN Norm(a.neg, MagAdd(a, b))
  ELSE IF MagLt(a, b) THEN Norm(b.neg, MagSub(b, a))
  ELSE Norm(a.neg, MagSub(a, b))

\* `if c: score += w`
AddIf(c, score, w) == IF c THEN FAdd(score, w) ELSE score

FNeg(a) == Norm(~a.neg, <<a.hi, a.lo>>)

\* a - b
FSub(a, b) == FAdd(a, FNeg(b))

\* a < b
FLt(a, b) ==
  IF a.neg /\ ~b.neg THEN TRUE
  ELSE IF ~a.neg /\ b.neg THEN FALSE
  ELSE IF a.neg THEN MagLt(b, a)
  ELSE MagLt(a, b)

\* a >= b
FGe(a, b) == ~FLt(a, b)

\* a > b
FGt(a, b) == FLt(b, a)

\* Python's min(a, b) and max(a, b): the first argument unless the second
\* is strictly smaller (larger).
FMin(a, b) == IF FLt(b, a) THEN b ELSE a

FMax(a, b) == IF FGt(b, a) THEN b ELSE a

\* n * x for a small non-negative integer n: the exact product, rounded once
RECURSIVE MagTimes(_, _)
MagTimes(n, x) ==
  LET Step(h, l) == IF l >= Limb THEN <<h + 1, l - Limb>> ELSE <<h, l>>
      Plus(p)    == Step(p[1] + x.hi, p[2] + x.lo)
  IN  IF n = 0 THEN <<0, 0>> ELSE Plus(MagTimes(n - 1, x))

FTimesInt(n, x) ==
  LET Rounded(p) == Norm(x.neg, RoundMag(p[1], p[2]))
  IN  Rounded(MagTimes(n, x))


(***************************************************************************)
(* Text.  A string is a sequence of tokens; Lower is str.lower() on one    *)
(* token.  A compiled pattern is a record [anchored, alts]: alts is the    *)
(* set of alternatives of the regular expression, each a sequence of token *)
(* classes that must occur at adjacent positions; all patterns are         *)
(* compiled with re.I, so they are evaluated on the lower-cased tokens.    *)
(***************************************************************************)
Lower(t) ==
  CASE t = "Re:" -> "re:"
    [] t = "RE:" -> "re:"
    [] t = "Fwd:" -> "fwd:"
    [] t = "FW:" -> "fw:"
    [] t = "Weekly" -> "weekly"
    [] t = "Performance" -> "performance"
    [] t = "Report" -> "report"
    [] t = "Jan" -> "jan"
    [] t = "Billing" -> "billing"
    [] t = "Vendor.com" -> "vendor.com"
    [] t = "Spend" -> "spend"
    [] t = "Bob" -> "bob"
    [] t = "Date" -> "date"
    [] t = "Impressions" -> "impressions"
    [] t = "Clicks" -> "clicks"
    [] t = ".CSV" -> ".csv"
    [] t = ".XLSX" -> ".xlsx"
    [] t = "CSV" -> "csv"
    [] OTHER -> t

LowerStr(s) == [i \in 1..Len(s) |-> Lower(s[i])]

Word(ws) == [anchored |-> FALSE, alts |-> {<<ws>>}]

Adj(as, bs) == [anchored |-> FALSE, alts |-> {<<as, bs>>}]

\* re.search(pattern, s) with re.I: some alternative occurs at some position
Search(p, s) ==
  \E alt \in p.alts :
    \E i \in (IF p.anchored THEN {1} ELSE 1..(Len(s) + 1)) :
      /\ i + Len(alt) - 1 <= Len(s)
      /\ \A j \in 1..Len(alt) : Lower(s[i + j - 1]) \in alt[j]

\* `phrase in text`: the tokens of phrase occur contiguously in text
Contains(text, phrase) ==
  \E i \in 1..(Len(text) + 1) :
    /\ i + Len(phrase) - 1 <= Len(text)
    /\ \A j \in 1..Len(phrase) : text[i + j - 1] = phrase[j]

\* text.endswith(suffix)
EndsWith(text, suffix) ==
  /\ Len(suffix) <= Len(text)
  /\ \A j \in 1..Len(suffix) : text[Len(text) - Len(suffix) + j] = suffix[j]

\* index of the first element of patterns that matches s, 0 if none
\* (a for loop with `break` on the first match)
FirstMatch(patterns, s) ==
  IF \E i \in 1..Len(patterns) : Search(patterns[i], s)
  THEN CHOOSE i \in 1..Len(patterns) :
         /\ Search(patterns[i], s)
         /\ \A j \in 1..(i - 1) : ~Search(patterns[j], s)
  ELSE 0

ReplyPrefixes == {"re:", "fwd:", "fw:"}

Year4 == {"2025", "2026"}

DigitStart == {"2025", "2026", "12"}

HIGH_CONF_SUBJECT_PATTERNS == <<
  Adj({"weekly", "daily", "monthly", "quarterly"}, {"report", "data", "metrics", "analytics"}),
  Adj({"performance"}, {"report", "data", "export", "metrics"}),
  Adj({"q1", "q2", "q3", "q4"} \cup Year4, {"results", "report", "data"}),
  Adj({"media"}, {"plan", "report", "data", "metrics"}),
  Adj({"campaign", "placement", "partner"}, {"report"}) >>

MEDIUM_CONF_SUBJECT_PATTERNS == <<
  Word({"attached", "export", "summary", "numbers", "results"}),
  Adj({"jan", "feb", "mar", "apr", "may", "jun", "jul", "aug", "sep", "oct", "nov", "dec"}, Year4),
  [anchored |-> FALSE,
   alts |-> {<<{"week"}, DigitStart>>, <<{"week"}, {"of", "ending"}, DigitStart>>}] >>

SKIP_SUBJECT_PATTERNS == <<
  [anchored |-> TRUE, alts |-> {<<ReplyPrefixes, {"re:"}>>}],
  [anchored |-> FALSE, alts |-> {<<{"out"}, {"of"}, {"office"}>>}],
  Adj({"automatic"}, {"reply"}),
  Word({"unsubscribe"}),
  Word({"calendar"}),
  Adj({"meeting"}, {"invite", "invitation"}),
  Word({"invoice", "payment", "billing"}) >>

DELIVERY_PHRASES == <<
  <<"please", "find", "attached">>,
  <<"attached", "please", "find">>,
  <<"attached", "is", "the">>,
  <<"here", "is", "the", "data">>,
  <<"here", "is", "the", "report">>,
  <<"here", "are", "the", "numbers">>,
  <<"as", "requested">>,
  <<"for", "your", "review">>,
  <<"latest", "numbers">>,
  <<"updated", "report">>,
  <<"this", "week's", "data">>,
  <<"this", "month's", "report">> >>

METRIC_PATTERNS == <<
  Word({"impressions", "impression", "imps", "imp"}),
  Word({"clicks", "click", "click-through"}),
  Word({"spend", "cost", "budget"}),
  Word({"conversions", "conversion", "converts", "convert"}),
  Word({"views", "view"}),
  Word({"cpm", "cpc", "cpa", "cpv", "cpcv"}),
  Word({"ctr", "vtr", "cvr"}) >>

\* extension -> weight, None for an extension that is not a data file
DATA_EXTENSIONS == {".csv", ".xlsx", ".xls", ".tsv", ".json", ".xml"}

DataExtWeight(ext) ==
  IF ext \in {".csv", ".xlsx", ".xls", ".tsv"}
  THEN Dbl(161061273, 322122544)
  ELSE Dbl(107374182, 214748368)

\* URL tokens.  A dropbox.com/s/ URL also contains "box.com/s/...", so the
\* box pattern finds it too.
UrlSheets == "docs.google.com/spreadsheets/d/abc"
UrlDropbox == "dropbox.com/s/abc"
UrlBox == "app.box.com/s/abc"
UrlOneDrive == "1drv.ms/x"
UrlS3 == "s3.us-east-1.amazonaws.com/b?X-Amz-Signature=1"

LINK_TYPES == <<"google_sheets", "dropbox", "box", "onedrive", "s3_presigned">>

LINK_PATTERNS == <<
  Word({UrlSheets}),
  Word({UrlDropbox}),
  Word({UrlBox, UrlDropbox}),
  Word({UrlOneDrive}),
  Word({UrlS3}) >>

(***************************************************************************)
(* Optional values and file names                                          *)
(***************************************************************************)
None == [none |-> TRUE]

Some(x) == [none |-> FALSE, v |-> x]

\* `a or b or ""` on two Optional[str]
BodyOf(email) ==
  IF ~email.body_text.none /\ email.body_text.v # <<>> THEN email.body_text.v
  ELSE IF ~email.body_html.none /\ email.body_html.v # <<>> THEN email.body_html.v
  ELSE <<>>

ExtTokens == {".csv", ".CSV", ".xlsx", ".XLSX", ".xls", ".tsv", ".json", ".xml", ".pdf", ".png"}

\* Path(filename).suffix: the last component, when there is a stem before it
Suffix(filename) ==
  IF Len(filename) >= 2 /\ filename[Len(filename)] \in ExtTokens
  THEN filename[Len(filename)]
  ELSE ""

\* s.lstrip('.') on one token
LStripDot(t) ==
  CASE t = ".csv" -> "csv"
    [] t = ".xlsx" -> "xlsx"
    [] t = ".xls" -> "xls"
    [] t = ".tsv" -> "tsv"
    [] t = ".json" -> "json"
    [] t = ".xml" -> "xml"
    [] t = ".pdf" -> "pdf"
    [] t = ".png" -> "png"
    [] OTHER -> t

(***************************************************************************)
(* EmailClassifier                                                         *)
(***************************************************************************)
W_SUBJECT_HIGH == Dbl(161061273, 322122544)

W_SUBJECT_MED == Dbl(80530636, 429496728)

W_DELIVERY == Dbl(107374182, 214748368)

W_METRIC_EACH == Dbl(26843545, 322122548)

W_METRIC_CAP == Dbl(80530636, 429496728)

W_LINK == Dbl(107374182, 214748368)

W_REPLY_PENALTY == Dbl(53687091, 107374184)

T_HIGH == Dbl(375809638, 214748352)

T_MEDIUM == Dbl(268435456, 0)

T_UNCERTAIN == Dbl(161061273, 322122544)

\* _analyze_subject that tries the medium patterns only when no high pattern matched
_analyze_subject_HighOrMedium(subject) ==
  LET Result(h, m) ==
        [score   |-> IF h # 0 THEN FAdd(DZero, W_SUBJECT_HIGH)
                     ELSE AddIf(m # 0, DZero, W_SUBJECT_MED),
         factors |-> IF h # 0 THEN << <<"subject_high_match", h>> >>
                     ELSE IF m # 0 THEN << <<"subject_med_match", m>> >> ELSE <<>>]
  IN  Result(FirstMatch(HIGH_CONF_SUBJECT_PATTERNS, subject),
             FirstMatch(MEDIUM_CONF_SUBJECT_PATTERNS, subject))


_analyze_subject(subject) ==
  LET Result(h, m) ==
        [score   |-> AddIf(m # 0, AddIf(h # 0, DZero, W_SUBJECT_HIGH), W_SUBJECT_MED),
         factors |-> (IF h # 0 THEN << <<"subject_high_match", h>> >> ELSE <<>>)
                     \o (IF m # 0 THEN << <<"subject_med_match", m>> >> ELSE <<>>)]
  IN  Result(FirstMatch(HIGH_CONF_SUBJECT_PATTERNS, subject),
             FirstMatch(MEDIUM_CONF_SUBJECT_PATTERNS, subject))

_analyze_body(body) ==
  LET Result(phrases, metric_count) ==
        [score   |-> AddIf(metric_count > 0,
                           AddIf(phrases # {}, DZero, W_DELIVERY),
                           FMin(W_METRIC_CAP, FTimesInt(metric_count, W_METRIC_EACH))),
         factors |-> (IF phrases # {}
                      THEN << <<"body_delivery_phrase",
                                CHOOSE i \in phrases : \A j \in phrases : i <= j>> >>
                      ELSE <<>>)
                     \o (IF metric_count > 0
                         THEN << <<"body_metrics_mentioned", metric_count>> >> ELSE <<>>)]
      Lowered(body_lower) ==
        Result({i \in 1..Len(DELIVERY_PHRASES) : Contains(body_lower, DELIVERY_PHRASES[i])},
               Cardinality({i \in 1..Len(METRIC_PATTERNS) : Search(METRIC_PATTERNS[i], body)}))
  IN  Lowered(LowerStr(body))

\* _analyze_attachments without the break: every data file adds its weight
_analyze_attachments_EveryFile(attachments) ==
  LET First(att, n) ==
        [score   |-> FAdd(DZero, FTimesInt(n, DataExtWeight(Lower(Suffix(att.filename))))),
         factors |-> << <<"attachment_data_file", att.filename>> >>]
      Result(data) ==
        IF data = {} THEN [score |-> DZero, factors |-> <<>>]
        ELSE First(attachments[CHOOSE k \in data : \A j \in data : k <= j], Cardinality(data))
  IN  Result({i \in 1..Len(attachments) :
                Lower(Suffix(attachments[i].filename)) \in DATA_EXTENSIONS})


_analyze_attachments(attachments) ==
  LET First(att) ==
        [score   |-> FAdd(DZero, DataExtWeight(Lower(Suffix(att.filename)))),
         factors |-> << <<"attachment_data_file", att.filename>> >>]
      Result(data) ==
        IF data = {} THEN [score |-> DZero, factors |-> <<>>]
        ELSE First(attachments[CHOOSE k \in data : \A j \in data : k <= j])
  IN  Result({i \in 1..Len(attachments) :
                Lower(Suffix(attachments[i].filename)) \in DATA_EXTENSIONS})

_analyze_links(body) ==
  LET Result(k) ==
        IF k = 0 THEN [score |-> DZero, factors |-> <<>>]
        ELSE [score |-> FAdd(DZero, W_LINK), factors |-> << <<"link_detected", LINK_TYPES[k]>> >>]
  IN  Result(FirstMatch(LINK_PATTERNS, body))

\* Bucket with > for >= at the thresholds
Bucket_StrictThresholds(score) ==
  IF FGt(score, T_HIGH) THEN "DATA_HIGH_CONFIDENCE"
  ELSE IF FGt(score, T_MEDIUM) THEN "DATA_MEDIUM_CONFIDENCE"
  ELSE IF FGt(score, T_UNCERTAIN) THEN "UNCERTAIN"
  ELSE "NOT_DATA"


Bucket(score) ==
  IF FGe(score, T_HIGH) THEN "DATA_HIGH_CONFIDENCE"
  ELSE IF FGe(score, T_MEDIUM) THEN "DATA_MEDIUM_CONFIDENCE"
  ELSE IF FGe(score, T_UNCERTAIN) THEN "UNCERTAIN"
  ELSE "NOT_DATA"

\* Clamp without the upper limit
Clamp_LowerOnly(score) == FMax(DZero, score)


Clamp(score) == FMax(DZero, FMin(DOne, score))

ReplyForward(subject) == Len(subject) >= 1 /\ Lower(subject[1]) \in ReplyPrefixes

\* SkipMatched that tries the first skip pattern only
SkipMatched_FirstPatternOnly(subject) == Search(SKIP_SUBJECT_PATTERNS[1], subject)


SkipMatched(subject) == FirstMatch(SKIP_SUBJECT_PATTERNS, subject) # 0

\* the sum of the signal groups and the reply/forward penalty, before the clamp
RawScore(email) ==
  LET Penalty(score) ==
        IF ReplyForward(email.subject) THEN FSub(score, W_REPLY_PENALTY) ELSE score
      Sum(body) ==
        FAdd(FAdd(FAdd(FAdd(DZero, _analyze_subject(email.subject).score),
                       _analyze_body(body).score),
                  _analyze_attachments(email.attachments).score),
             _analyze_links(body).score)
  IN  Penalty(Sum(BodyOf(email)))

Factors(email) ==
  LET All(body) ==
        _analyze_subject(email.subject).factors \o _analyze_body(body).factors
        \o _analyze_attachments(email.attachments).factors \o _analyze_links(body).factors
        \o (IF ReplyForward(email.subject) THEN << <<"reply_forward_penalty">> >> ELSE <<>>)
  IN  All(BodyOf(email))

classify(email) ==
  IF SkipMatched(email.subject)
  THEN [classification |-> "NOT_DATA", score |-> DZero,
        factors |-> << <<"skip_pattern_matched">> >>, matched_patterns |-> <<>>]
  ELSE LET Result(score) ==
             [classification |-> Bucket(score), score |-> score,
              factors |-> Factors(email), matched_patterns |-> <<>>]
       IN  Result(Clamp(RawScore(email)))

(***************************************************************************)
(* PatternMatcher                                                          *)
(***************************************************************************)
W_SENDER == Dbl(161061273, 322122544)

W_SUBJECT == Dbl(107374182, 214748368)

W_FORMAT == Dbl(107374182, 214748368)

\* 0.30 * (m / n) in binary64, for 0 <= m <= n <= 6
ColScore(m, n) ==
  CASE m = 0 -> DZero
    [] m = n -> Dbl(161061273, 322122544)
    [] 2 * m = n -> Dbl(80530636, 429496728)
    [] 3 * m = n -> Dbl(53687091, 107374180)
    [] 3 * m = 2 * n -> Dbl(107374182, 214748360)
    [] 4 * m = n -> Dbl(40265318, 214748364)
    [] 4 * m = 3 * n -> Dbl(120795955, 107374176)
    [] 5 * m = n -> Dbl(32212254, 386547056)
    [] 5 * m = 2 * n -> Dbl(64424509, 236223200)
    [] 5 * m = 3 * n -> Dbl(96636764, 85899344)
    [] 5 * m = 4 * n -> Dbl(128849018, 472446400)
    [] 6 * m = n -> Dbl(26843545, 322122546)
    [] 6 * m = 5 * n -> Dbl(134217728, 0)

\* a value of the catalog JSON that is not a string (a number, say)
NonStr == "<number>"

\* one token of a compiled sender glob against one token of the sender:
\* the '.' of "acme.com" is an unescaped regex dot
GlobTokMatch(p, t) ==
  \/ Lower(p) = Lower(t)
  \/ (Lower(p) = "acme.com" /\ Lower(t) = "acmexcom")

\* sender_pattern.replace("*", ".*") compiled with re.I, matched from si on
RECURSIVE GlobMatchAt(_, _, _, _)
GlobMatchAt(glob, gi, s, si) ==
  IF gi > Len(glob) THEN TRUE
  ELSE IF glob[gi] = "*"
       THEN \E k \in si..(Len(s) + 1) : GlobMatchAt(glob, gi + 1, s, k)
       ELSE /\ si <= Len(s)
            /\ GlobTokMatch(glob[gi], s[si])
            /\ GlobMatchAt(glob, gi + 1, s, si + 1)

\* regex.search(from_address)
GlobSearch(glob, s) == \E i \in 1..(Len(s) + 1) : GlobMatchAt(glob, 1, s, i)

\* truth value of an Optional[list] and of an Optional[str]
TruthySeq(o) == ~o.none /\ o.v # <<>>

TruthyStr(o) == ~o.none /\ o.v # ""

\* the column check on the last asset with columns instead of the first
FirstWithColumns_Last(assets) ==
  LET cs == {i \in 1..Len(assets) : TruthySeq(assets[i].columns)}
  IN  IF cs = {} THEN 0 ELSE CHOOSE i \in cs : \A j \in cs : i >= j


\* the first asset the column check uses: the first with a non-empty columns list
FirstWithColumns(assets) ==
  LET cs == {i \in 1..Len(assets) : TruthySeq(assets[i].columns)}
  IN  IF cs = {} THEN 0 ELSE CHOOSE i \in cs : \A j \in cs : i <= j

\* col.lower() raises AttributeError on a non-string expected column
EntryRaises(pattern, assets) ==
  /\ TruthySeq(pattern.expected_columns)
  /\ FirstWithColumns(assets) # 0
  /\ \E i \in 1..Len(pattern.expected_columns.v) : pattern.expected_columns.v[i] = NonStr

FormatMatches(pattern, assets) ==
  /\ TruthyStr(pattern.expected_format)
  /\ \E i \in 1..Len(assets) :
       /\ TruthySeq(assets[i].filename)
       /\ LStripDot(Lower(Suffix(assets[i].filename.v)))
            = LStripDot(Lower(pattern.expected_format.v))

MatchedCols(pattern, asset) ==
  Cardinality({i \in 1..Len(pattern.expected_columns.v) :
                 \E j \in 1..Len(asset.columns.v) :
                   Lower(pattern.expected_columns.v[i]) = Lower(asset.columns.v[j])})

\* the body of the for loop with the format weight added for a second asset
\* of the expected format too
EntryScore_FormatPerAsset(pattern, email, assets) ==
  LET Result(snd, sub, fmt, fmt2, col, mc, n) ==
        [score   |-> AddIf(col,
                       AddIf(fmt2,
                         AddIf(fmt,
                           AddIf(sub, AddIf(snd, DZero, W_SENDER), W_SUBJECT),
                           W_FORMAT),
                         W_FORMAT),
                       ColScore(mc, n)),
         factors |-> (IF snd THEN <<"sender_match">> ELSE <<>>)
                     \o (IF sub THEN <<"subject_pattern_match">> ELSE <<>>)
                     \o (IF fmt THEN <<"format_match">> ELSE <<>>)
                     \o (IF col THEN << <<"column_match", mc, n>> >> ELSE <<>>)]
      Columns(col, ca) ==
        Result(\E i \in 1..Len(pattern.sender_patterns) :
                 GlobSearch(pattern.sender_patterns[i], email.from_address),
               FirstMatch(pattern.subject_patterns, email.subject) # 0,
               FormatMatches(pattern, assets),
               FormatMatches(pattern, assets) /\ FormatMatches(pattern, Tail(assets)),
               col,
               IF col THEN MatchedCols(pattern, assets[ca]) ELSE 0,
               IF col THEN Len(pattern.expected_columns.v) ELSE 0)
      Asset(ca) == Columns(TruthySeq(pattern.expected_columns) /\ ca # 0, ca)
  IN  Asset(FirstWithColumns(assets))


\* the score and factors of one catalog entry (the body of the for loop)
EntryScore(pattern, email, assets) ==
  LET Result(snd, sub, fmt, col, mc, n) ==
        [score   |-> AddIf(col,
                       AddIf(fmt,
                         AddIf(sub, AddIf(snd, DZero, W_SENDER), W_SUBJECT),
                         W_FORMAT),
                       ColScore(mc, n)),
         factors |-> (IF snd THEN <<"sender_match">> ELSE <<>>)
                     \o (IF sub THEN <<"subject_pattern_match">> ELSE <<>>)
                     \o (IF fmt THEN <<"format_match">> ELSE <<>>)
                     \o (IF col THEN << <<"column_match", mc, n>> >> ELSE <<>>)]
      Columns(col, ca) ==
        Result(\E i \in 1..Len(pattern.sender_patterns) :
                 GlobSearch(pattern.sender_patterns[i], email.from_address),
               FirstMatch(pattern.subject_patterns, email.subject) # 0,
               FormatMatches(pattern, assets),
               col,
               IF col THEN MatchedCols(pattern, assets[ca]) ELSE 0,
               IF col THEN Len(pattern.expected_columns.v) ELSE 0)
      Asset(ca) == Columns(TruthySeq(pattern.expected_columns) /\ ca # 0, ca)
  IN  Asset(FirstWithColumns(assets))

\* MatchLoop with >= for > in the comparison with the best score so far
RECURSIVE MatchLoop_LastWins(_, _, _, _, _)
MatchLoop_LastWins(patterns, i, email, assets, best) ==
  IF i > Len(patterns) THEN best
  ELSE LET Entry(e) ==
             IF FGe(e.score, best.confidence)
             THEN MatchLoop_LastWins(patterns, i + 1, email, assets,
                                     [partner |-> Some(patterns[i].partner_name),
                                      confidence |-> e.score, factors |-> e.factors])
             ELSE MatchLoop_LastWins(patterns, i + 1, email, assets, best)
       IN  Entry(EntryScore(patterns[i], email, assets))


\* the loop over the compiled patterns from entry i on
RECURSIVE MatchLoop(_, _, _, _, _)
MatchLoop(patterns, i, email, assets, best) ==
  IF i > Len(patterns) THEN best
  ELSE LET Entry(e) ==
             IF FGt(e.score, best.confidence)
             THEN MatchLoop(patterns, i + 1, email, assets,
                            [partner |-> Some(patterns[i].partner_name),
                             confidence |-> e.score, factors |-> e.factors])
             ELSE MatchLoop(patterns, i + 1, email, assets, best)
       IN  Entry(EntryScore(patterns[i], email, assets))

\* match that starts from the first entry as the best one so far
match_StartsFromFirst(patterns, email, assets) ==
  IF \E i \in 1..Len(patterns) : EntryRaises(patterns[i], assets)
  THEN [raised |-> TRUE, error |-> "AttributeError"]
  ELSE [raised |-> FALSE] @@
       MatchLoop(patterns, 1, email, assets,
                 [partner |-> IF patterns = <<>> THEN None ELSE Some(patterns[1].partner_name),
                  confidence |-> DZero, factors |-> <<>>])


match(patterns, email, assets) ==
  IF \E i \in 1..Len(patterns) : EntryRaises(patterns[i], assets)
  THEN [raised |-> TRUE, error |-> "AttributeError"]
  ELSE [raised |-> FALSE] @@
       MatchLoop(patterns, 1, email, assets,
                 [partner |-> None, confidence |-> DZero, factors |-> <<>>])

(***************************************************************************)
(* GmailClient.save_attachment and EmailScanner.extract_assets             *)
(*                                                                         *)
(* fs is the file system below extraction_dir: a function from the paths   *)
(* that exist, <<directory, file name>>, to the bytes stored there, named  *)
(* by <<message id, attachment id>>.                                       *)
(* env[i] is what the outside world does for attachment i: the download    *)
(* succeeds or raises, and the header probe finds a column list or not.    *)
(***************************************************************************)
\* c if c.isalnum() or c in '.-_' else '_'
SafeTok(t) == IF t \in {" ", "/"} THEN "_" ELSE t

SafeName(filename) == [i \in 1..Len(filename) |-> SafeTok(filename[i])]

CounterTok(n) ==
  CASE n = 1 -> "_1" [] n = 2 -> "_2" [] n = 3 -> "_3" [] n = 4 -> "_4"
    [] n = 5 -> "_5" [] n = 6 -> "_6" [] OTHER -> "_n"

\* f"{stem}_{counter}{suffix}" of a file name
WithCounter(name, counter) ==
  IF Suffix(name) = "" THEN name \o <<CounterTok(counter)>>
  ELSE SubSeq(name, 1, Len(name) - 1) \o <<CounterTok(counter), name[Len(name)]>>

\* while file_path.exists(): ... counter += 1
RECURSIVE FreeName(_, _, _, _)
FreeName(files, dir, name, counter) ==
  IF <<dir, name>> \in DOMAIN files
  THEN FreeName(files, dir, WithCounter(name, counter), counter + 1)
  ELSE name

save_attachment(files, message_id, attachment, output_dir, download) ==
  LET Saved(path) ==
        [raised |-> FALSE, file_path |-> path,
         fs |-> (path :> <<message_id, attachment.attachment_id>>) @@ files]
  IN  IF download = "error"
      THEN [raised |-> TRUE, error |-> "download failed", fs |-> files]
      ELSE Saved(<<output_dir, FreeName(files, output_dir, SafeName(attachment.filename), 1)>>)

ProbeExts == {".csv", ".xlsx", ".xls", ".json"}

\* reading the saved file raised (unreadable or corrupt file)
ProbeError == [none |-> TRUE, error |-> "corrupt file"]

IsProbeError(probe) == "error" \in DOMAIN probe

\* _extract_columns of a saved file: the first row of a format it reads, None
\* for a format it does not read; an exception while reading is logged and
\* None is returned
_extract_columns(file_path, probe) ==
  IF Lower(Suffix(file_path[2])) \in ProbeExts /\ ~IsProbeError(probe) THEN probe ELSE None

\* the attachment loop with a failed download ending the loop
RECURSIVE ExtractAttachments_StopsAtFailure(_, _, _, _, _, _)
ExtractAttachments_StopsAtFailure(email, i, dir, env, assets, files) ==
  IF i > Len(email.attachments) THEN [assets |-> assets, fs |-> files]
  ELSE
    LET Saved(att, r) ==
          IF r.raised
          THEN [assets |->
                  Append(assets,
                    [asset_type |-> "attachment", source_email_id |-> email.message_id,
                     filename |-> Some(att.filename), file_path |-> None,
                     url |-> None, link_type |-> None,
                     mime_type |-> None, size_bytes |-> None,
                     columns |-> None, error |-> Some(r.error)]),
                fs |-> r.fs]
          ELSE ExtractAttachments_StopsAtFailure(email, i + 1, dir, env,
                 Append(assets,
                   [asset_type |-> "attachment", source_email_id |-> email.message_id,
                    filename |-> Some(att.filename), file_path |-> Some(r.file_path),
                    url |-> None, link_type |-> None,
                    mime_type |-> Some(att.mime_type), size_bytes |-> Some(att.size),
                    columns |-> _extract_columns(r.file_path, env[i].probe),
                    error |-> None]),
                 r.fs)
        Attachment(att) ==
          IF Lower(Suffix(att.filename)) \notin DATA_EXTENSIONS
          THEN ExtractAttachments_StopsAtFailure(email, i + 1, dir, env, assets, files)
          ELSE Saved(att, save_attachment(files, email.message_id, att, dir, env[i].download))
    IN  Attachment(email.attachments[i])

\* the attachment loop from attachment i on
RECURSIVE ExtractAttachments(_, _, _, _, _, _)
ExtractAttachments(email, i, dir, env, assets, files) ==
  IF i > Len(email.attachments) THEN [assets |-> assets, fs |-> files]
  ELSE
    LET Saved(att, r) ==
          IF r.raised
          THEN ExtractAttachments(email, i + 1, dir, env,
                 Append(assets,
                   [asset_type |-> "attachment", source_email_id |-> email.message_id,
                    filename |-> Some(att.filename), file_path |-> None,
                    url |-> None, link_type |-> None,
                    mime_type |-> None, size_bytes |-> None,
                    columns |-> None, error |-> Some(r.error)]),
                 r.fs)
          ELSE ExtractAttachments(email, i + 1, dir, env,
                 Append(assets,
                   [asset_type |-> "attachment", source_email_id |-> email.message_id,
                    filename |-> Some(att.filename), file_path |-> Some(r.file_path),
                    url |-> None, link_type |-> None,
                    mime_type |-> Some(att.mime_type), size_bytes |-> Some(att.size),
                    columns |-> _extract_columns(r.file_path, env[i].probe),
                    error |-> None]),
                 r.fs)
        Attachment(att) ==
          IF Lower(Suffix(att.filename)) \notin DATA_EXTENSIONS
          THEN ExtractAttachments(email, i + 1, dir, env, assets, files)
          ELSE Saved(att, save_attachment(files, email.message_id, att, dir, env[i].download))
    IN  Attachment(email.attachments[i])

\* match.group(0): the text the pattern matched inside the URL token
MatchedText(k, tok) == IF k = 3 /\ tok = UrlDropbox THEN "box.com/s/abc" ELSE tok

\* the link loop leaving at the first link type found
RECURSIVE ExtractLinks_FirstTypeOnly(_, _, _, _)
ExtractLinks_FirstTypeOnly(email, body, k, assets) ==
  IF k > Len(LINK_PATTERNS) THEN assets
  ELSE IF ~Search(LINK_PATTERNS[k], body)
  THEN ExtractLinks_FirstTypeOnly(email, body, k + 1, assets)
  ELSE LET Hits(hits) ==
             Append(assets,
               [asset_type |-> "link", source_email_id |-> email.message_id,
                filename |-> None, file_path |-> None,
                url |-> Some(MatchedText(k, body[CHOOSE h \in hits : \A j \in hits : h <= j])),
                link_type |-> Some(LINK_TYPES[k]),
                mime_type |-> None, size_bytes |-> None,
                columns |-> None, error |-> None])
       IN  Hits({i \in 1..Len(body) : Search(LINK_PATTERNS[k], <<body[i]>>)})


\* the link loop from link type k on
RECURSIVE ExtractLinks(_, _, _, _)
ExtractLinks(email, body, k, assets) ==
  IF k > Len(LINK_PATTERNS) THEN assets
  ELSE IF ~Search(LINK_PATTERNS[k], body) THEN ExtractLinks(email, body, k + 1, assets)
  ELSE LET Hits(hits) ==
             ExtractLinks(email, body, k + 1,
               Append(assets,
                 [asset_type |-> "link", source_email_id |-> email.message_id,
                  filename |-> None, file_path |-> None,
                  url |-> Some(MatchedText(k, body[CHOOSE h \in hits : \A j \in hits : h <= j])),
                  link_type |-> Some(LINK_TYPES[k]),
                  mime_type |-> None, size_bytes |-> None,
                  columns |-> None, error |-> None]))
       IN  Hits({i \in 1..Len(body) : Search(LINK_PATTERNS[k], <<body[i]>>)})

\* extract_assets that scans the body for links before it saves attachments
extract_assets_LinksFirst(email, extraction_dir, run_id, env, files) ==
  LET Attachments(a) == [assets |-> a.assets, fs |-> a.fs]
  IN  Attachments(ExtractAttachments(email, 1, <<extraction_dir, run_id>>, env,
                                     ExtractLinks(email, BodyOf(email), 1, <<>>), files))


extract_assets(email, extraction_dir, run_id, env, files) ==
  LET Links(a) == [assets |-> ExtractLinks(email, BodyOf(email), 1, a.assets), fs |-> a.fs]
  IN  Links(ExtractAttachments(email, 1, <<extraction_dir, run_id>>, env, <<>>, files))

(***************************************************************************)
(* EmailScanner.is_blocklisted and EmailScanner.scan_email                 *)
(***************************************************************************)
is_blocklisted(email, blocklist_senders, blocklist_domains) ==
  LET from_addr == LowerStr(email.from_address)
  IN  \/ \E i \in 1..Len(blocklist_senders) :
           LET blocked == LowerStr(blocklist_senders[i])
           IN  IF Len(blocked) >= 2 /\ blocked[1] = "*" /\ blocked[2] = "@"
               THEN EndsWith(from_addr, Tail(blocked))
               ELSE Contains(from_addr, blocked)
      \/ \E i \in 1..Len(blocklist_domains) :
           Contains(from_addr, <<"@">> \o LowerStr(blocklist_domains[i]))

\* routing that sends to auto_process only what the classifier is confident of
Route_ConfidentBucketsOnly(patterns, partner, pattern_confidence, classification) ==
  LET Entry(pattern) ==
        IF /\ pattern.auto_process
           /\ FGe(pattern_confidence, pattern.confidence_threshold)
           /\ classification \in {"DATA_HIGH_CONFIDENCE", "DATA_MEDIUM_CONFIDENCE"}
        THEN "auto_process" ELSE "review"
      Named(named) == Entry(patterns[CHOOSE k \in named : \A j \in named : k <= j])
  IN  IF TruthyStr(partner)
      THEN Named({i \in 1..Len(patterns) : patterns[i].partner_name = partner.v})
      ELSE IF classification = "NOT_DATA" THEN "skip" ELSE "review"


\* the routing decision of scan_email, lines 600-610
Route(patterns, partner, pattern_confidence, classification) ==
  LET Entry(pattern) ==
        IF pattern.auto_process /\ FGe(pattern_confidence, pattern.confidence_threshold)
        THEN "auto_process" ELSE "review"
      Named(named) == Entry(patterns[CHOOSE k \in named : \A j \in named : k <= j])
  IN  IF TruthyStr(partner)
      THEN Named({i \in 1..Len(patterns) : patterns[i].partner_name = partner.v})
      ELSE IF classification = "NOT_DATA" THEN "skip" ELSE "review"

\* the ScanResult of the two early returns of scan_email
SkipResult(email, classification, files) ==
  [raised |-> FALSE, email |-> email, classification |-> classification,
   extracted_assets |-> <<>>, matched_partner |-> None,
   pattern_match_confidence |-> DZero, route_action |-> "skip", fs |-> files]

\* scan_email from `assets = self.extract_assets(...)` on
ExtractMatchRoute(email, sc, run_id, env, files, c) ==
  LET Matched(x, m) ==
        IF m.raised
        THEN [raised |-> TRUE, error |-> m.error, fs |-> x.fs]
        ELSE [raised |-> FALSE, email |-> email,
              classification |-> [c EXCEPT !.matched_patterns = m.factors],
              extracted_assets |-> x.assets, matched_partner |-> m.partner,
              pattern_match_confidence |-> m.confidence,
              route_action |-> Route(sc.patterns, m.partner, m.confidence, c.classification),
              fs |-> x.fs]
      Extracted(x) == Matched(x, match(sc.patterns, email, x.assets))
  IN  Extracted(extract_assets(email, sc.extraction_dir, run_id, env, files))

\* scan_email that extracts and matches first and tests block list and
\* classification afterwards
scan_email_ExtractFirst(email, sc, run_id, env, files) ==
  LET Skipped(r, c) ==
        IF r.raised THEN r
        ELSE [r EXCEPT !.classification = c, !.route_action = "skip"]
      Done(r) ==
        IF is_blocklisted(email, sc.blocklist_senders, sc.blocklist_domains)
        THEN Skipped(r, [classification |-> "NOT_DATA", score |-> DZero,
                         factors |-> << <<"blocklisted_sender">> >>,
                         matched_patterns |-> <<>>])
        ELSE IF classify(email).classification = "NOT_DATA"
        THEN Skipped(r, classify(email))
        ELSE r
  IN  Done(ExtractMatchRoute(email, sc, run_id, env, files, classify(email)))

\* scan_email without the early return for NOT_DATA
scan_email_NoNotDataReturn(email, sc, run_id, env, files) ==
  IF is_blocklisted(email, sc.blocklist_senders, sc.blocklist_domains)
  THEN SkipResult(email,
                  [classification |-> "NOT_DATA", score |-> DZero,
                   factors |-> << <<"blocklisted_sender">> >>, matched_patterns |-> <<>>],
                  files)
  ELSE ExtractMatchRoute(email, sc, run_id, env, files, classify(email))


scan_email(email, sc, run_id, env, files) ==
  IF is_blocklisted(email, sc.blocklist_senders, sc.blocklist_domains)
  THEN SkipResult(email,
                  [classification |-> "NOT_DATA", score |-> DZero,
                   factors |-> << <<"blocklisted_sender">> >>, matched_patterns |-> <<>>],
                  files)
  ELSE LET Classified(c) ==
             IF c.classification = "NOT_DATA"
             THEN SkipResult(email, c, files)
             ELSE ExtractMatchRoute(email, sc, run_id, env, files, c)
       IN  Classified(classify(email))

(***************************************************************************)
(* Output projections of EmailScanner                                      *)
(***************************************************************************)
\* message_id[:8]: a message id is <<its first eight characters, the rest>>
Prefix8(message_id) == message_id[1]

\* raw sources without the test `if asset.file_path`: an entry for every asset
RECURSIVE RawSources_EveryAsset(_, _, _)
RawSources_EveryAsset(result, i, out) ==
  IF i > Len(result.extracted_assets) THEN out
  ELSE LET asset == result.extracted_assets[i]
       IN  RawSources_EveryAsset(result, i + 1,
             Append(out,
               [source_system |-> "email",
                source_location |-> <<result.email.message_id, asset.filename>>,
                partner_name |-> result.matched_partner,
                received_at |-> result.email.date.iso,
                payload |-> [type |-> "file_reference",
                             path |-> IF asset.file_path.none THEN "None"
                                      ELSE asset.file_path.v],
                email_metadata |-> [message_id |-> result.email.message_id,
                                    from |-> result.email.from_address,
                                    subject |-> result.email.subject,
                                    received_date |-> result.email.date.iso]]))


RECURSIVE RawSources(_, _, _)
RawSources(result, i, out) ==
  IF i > Len(result.extracted_assets) THEN out
  ELSE LET asset == result.extracted_assets[i]
       IN  IF asset.file_path.none THEN RawSources(result, i + 1, out)
           ELSE RawSources(result, i + 1,
                  Append(out,
                    [source_system |-> "email",
                     source_location |-> <<result.email.message_id, asset.filename>>,
                     partner_name |-> result.matched_partner,
                     received_at |-> result.email.date.iso,
                     payload |-> [type |-> "file_reference", path |-> asset.file_path.v],
                     email_metadata |-> [message_id |-> result.email.message_id,
                                         from |-> result.email.from_address,
                                         subject |-> result.email.subject,
                                         received_date |-> result.email.date.iso]]))

\* result.email.date.isoformat() raises AttributeError on a date that is no
\* datetime; the payload evaluates it once per asset with a file path, the
\* review item always
IsDatetime(date) == "iso" \in DOMAIN date

AutoPayloadRaises(result) ==
  /\ ~IsDatetime(result.email.date)
  /\ \E i \in 1..Len(result.extracted_assets) : ~result.extracted_assets[i].file_path.none

ReviewItemRaises(result) == ~IsDatetime(result.email.date)

\* the formatter the loop body calls for this result raises
FormatRaises(r) ==
  IF r.raised THEN FALSE
  ELSE \/ r.route_action = "auto_process" /\ AutoPayloadRaises(r)
       \/ r.route_action = "review" /\ ReviewItemRaises(r)

NO_ISOFORMAT == "'str' object has no attribute 'isoformat'"

_format_auto_process_payload(result, run_id) ==
  [payload_id |-> <<run_id, Prefix8(result.email.message_id)>>,
   partner_name |-> result.matched_partner,
   pattern_match_confidence |-> result.pattern_match_confidence,
   raw_sources |-> RawSources(result, 1, <<>>)]

_format_review_item(result, run_id) ==
  [review_id |-> <<"rev", run_id, Prefix8(result.email.message_id)>>,
   email_summary |-> [message_id |-> result.email.message_id,
                      from |-> result.email.from_address,
                      subject |-> result.email.subject,
                      date |-> result.email.date.iso],
   classification_score |-> result.classification.score,
   classification_factors |-> result.classification.factors,
   extracted_assets |-> [i \in 1..Len(result.extracted_assets) |->
                           [type |-> result.extracted_assets[i].asset_type,
                            filename |-> result.extracted_assets[i].filename,
                            url |-> result.extracted_assets[i].url,
                            columns |-> result.extracted_assets[i].columns,
                            error |-> result.extracted_assets[i].error]],
   suggested_partner |-> result.matched_partner,
   pattern_match_confidence |-> result.pattern_match_confidence]

(***************************************************************************)
(* GmailClient.fetch_emails as EmailScanner.scan calls it                  *)
(***************************************************************************)
\* the parameters of GmailClient.fetch_emails
FetchEmailsParams ==
  {"query", "since", "until", "max_results", "include_body",
   "include_attachments", "in_inbox", "category"}

\* the keyword arguments EmailScanner.scan passes
ScanCallKwargs == {"since", "query", "max_results", "labels"}

\* msg_refs[:max_results], a Python slice
SliceTo(seq, n) ==
  IF n >= 0 THEN SubSeq(seq, 1, IF n < Len(seq) THEN n ELSE Len(seq))
  ELSE SubSeq(seq, 1, IF Len(seq) + n > 0 THEN Len(seq) + n ELSE 0)

(***************************************************************************)
(* Inputs: senders, subjects, bodies, attachments, catalogs, blocklists    *)
(***************************************************************************)
FROM_ACME == <<"reports", "@", "acme.com">>
FROM_BILLING == <<"Billing", "@", "Vendor.com">>
FROM_DISPLAY == <<"Bob", " ", "<", "bob", "@", "vendor.com", ">">>
FROM_OTHER == <<"bob", "@", "other.org">>

SUBJ_A == <<"Weekly", "Performance", "Report", "-", "Jan", "2026">>
SUBJ_B == <<"Re:", "Re:", "lunch", "tomorrow?">>
SUBJ_PLAIN == <<"hello">>
SUBJ_REPLY == <<"Re:", "hello">>
SUBJ_INVOICE == <<"weekly", "report", "invoice">>
SUBJ_HIGH == <<"campaign", "report">>
SUBJ_HIMED == <<"weekly", "report", "summary">>
SUBJ_FWD_HIGH == <<"Fwd:", "media", "plan">>

BODY_A == <<"please", "find", "attached", "the", "impressions">>
BODY_ALL == <<"as", "requested", "Clicks", "Spend", "views", "cpm", UrlDropbox>>
BODY_LINK == <<"see", UrlSheets>>
BODY_METRIC == <<"impressions">>
BODY_CHAT == <<"see", "you", "then">>

ATT_XLSX == [filename |-> <<"report", ".xlsx">>, mime_type |-> "application/xlsx",
             size |-> 10, attachment_id |-> "a1"]
ATT_CSV == [filename |-> <<"data", ".CSV">>, mime_type |-> "text/csv",
            size |-> 20, attachment_id |-> "a2"]
ATT_CSV2 == [filename |-> <<"data", ".CSV">>, mime_type |-> "text/csv",
             size |-> 30, attachment_id |-> "a3"]
ATT_PNG == [filename |-> <<"logo", ".png">>, mime_type |-> "image/png",
            size |-> 5, attachment_id |-> "a4"]
ATT_JSON == [filename |-> <<"feed", ".json">>, mime_type |-> "application/json",
             size |-> 7, attachment_id |-> "a5"]

\* the date of a message: the datetime _parse_message builds, or the text of
\* the Date header as a collaborator that does not parse it hands it on
DATETIME == [iso |-> "2026-01-02T03:04:05"]

TEXT_DATE == [text |-> "Fri, 2 Jan 2026 03:04:05 +0000"]

\* an EmailMessage as GmailClient._parse_message builds it
Email(id, from, subject, text, html, atts) ==
  [message_id |-> id, from_address |-> from, subject |-> subject,
   body_text |-> text, body_html |-> html, attachments |-> atts, date |-> DATETIME]

D030 == Dbl(161061273, 322122544)
D045 == Dbl(241591910, 214748368)
D080 == Dbl(429496729, 322122560)

PartnerPattern(name, senders, subjects, format, columns, auto, threshold) ==
  [partner_name |-> name, sender_patterns |-> senders, subject_patterns |-> subjects,
   expected_format |-> format, expected_columns |-> columns,
   auto_process |-> auto, confidence_threshold |-> threshold]

ANY_ACME == <<"*", "@", "acme.com">>

COLS4 == <<"date", "impressions", "clicks", "spend">>

P_ACME ==
  PartnerPattern("Acme", <<ANY_ACME>>, <<Adj({"performance"}, {"report"})>>,
                 None, Some(COLS4), TRUE, D080)

P_ACME_LOW == PartnerPattern("Acme", <<ANY_ACME>>, <<>>, None, None, TRUE, D030)

P_ACME_STRICT ==
  PartnerPattern("Acme", <<ANY_ACME>>, <<Adj({"performance"}, {"report"})>>,
                 None, None, FALSE, D080)

P_NONAME == PartnerPattern("", << <<"*">> >>, <<>>, None, None, TRUE, D030)

P_TIE_A == PartnerPattern("A", <<ANY_ACME>>, <<Word({"report"})>>, None, None, TRUE, D045)

P_TIE_B == PartnerPattern("B", <<ANY_ACME>>, <<Word({"report"})>>, None, None, FALSE, D045)

P_BADCOLS ==
  PartnerPattern("Bad", << <<"*">> >>, <<>>, None, Some(<<"date", NonStr>>), TRUE, D080)

P_FULL ==
  PartnerPattern("Full", << <<"*", "@", "other.org">> >>, <<Word({"report"})>>,
                 Some("CSV"), Some(<<"Date", "clicks">>), TRUE, DOne)

P_D45 == PartnerPattern("Half", <<ANY_ACME>>, <<>>, None, Some(COLS4), TRUE, D045)

Catalogs ==
  { <<>>, <<P_ACME>>, <<P_ACME_LOW, P_ACME_STRICT>>, <<P_NONAME>>, <<P_TIE_A, P_TIE_B>>,
    <<P_BADCOLS>>, <<P_ACME, P_FULL>>, <<P_D45>> }

Blocklists ==
  { [senders |-> <<>>, domains |-> <<>>],
    [senders |-> << <<"billing">> >>, domains |-> <<>>],
    [senders |-> << <<"*", "@", "vendor.com">> >>, domains |-> <<>>],
    [senders |-> <<>>, domains |-> << <<"Vendor.com">> >>] }

\* EmailScanner.__init__: the block lists are lower-cased once
EmailScanner(patterns, blocklist, dir) ==
  [patterns |-> patterns,
   blocklist_senders |-> [i \in 1..Len(blocklist.senders) |-> LowerStr(blocklist.senders[i])],
   blocklist_domains |-> [i \in 1..Len(blocklist.domains) |-> LowerStr(blocklist.domains[i])],
   extraction_dir |-> dir]

ProbeResults ==
  {ProbeError, None, Some(<<"Date", "Clicks">>), Some(<<"Date", "Impressions", "Clicks", "Spend">>)}

\* what the outside world can do while the attachments of one message are saved
EnvOf(attachment) ==
  IF Lower(Suffix(attachment.filename)) \notin DATA_EXTENSIONS
  THEN {[download |-> "ok", probe |-> None]}
  ELSE {[download |-> "error", probe |-> None]}
       \cup [download : {"ok"},
             probe : IF Lower(Suffix(SafeName(attachment.filename))) \in ProbeExts
                     THEN ProbeResults ELSE {None}]

Envs(email) ==
  {env \in [1..Len(email.attachments) -> [download : {"ok", "error"}, probe : ProbeResults]] :
     \A i \in 1..Len(email.attachments) : env[i] \in EnvOf(email.attachments[i])}

(***************************************************************************)
(* run_scan: the catalog file, load_patterns, the construction of the      *)
(* scanner                                                                 *)
(***************************************************************************)
\* a subject pattern that re.compile rejects
BAD_REGEX == [anchored |-> FALSE, invalid |-> TRUE]

Compiles(pattern) == "invalid" \notin DOMAIN pattern

\* p.get(key, default) of a JSON object
Get(p, key, default) == IF key \in DOMAIN p THEN p[key] ELSE default

\* p.get(key) of a JSON object
GetOpt(p, key) == IF key \in DOMAIN p THEN Some(p[key]) ELSE None

\* the PartnerPattern load_patterns builds from one entry that has a name
LoadEntry(p) ==
  PartnerPattern(p.partner_name,
                 Get(p, "sender_patterns", <<>>),
                 Get(p, "subject_patterns", <<>>),
                 GetOpt(p, "expected_format"),
                 GetOpt(p, "expected_columns"),
                 Get(p, "auto_process", TRUE),
                 Get(p, "confidence_threshold", D080))

\* the text of a file that json.load rejects
NOT_JSON == [text |-> "{not json"]

\* load_patterns(patterns_path) on the files of the disk
load_patterns(patterns_path, files) ==
  LET Entries(entries) ==
        IF \E i \in 1..Len(entries) : "partner_name" \notin DOMAIN entries[i]
        THEN [raised |-> TRUE, error |-> "KeyError"]
        ELSE [raised |-> FALSE,
              patterns |-> [i \in 1..Len(entries) |-> LoadEntry(entries[i])]]
  IN  IF patterns_path.none \/ patterns_path.v \notin DOMAIN files
      THEN [raised |-> FALSE, patterns |-> <<>>]
      ELSE IF "text" \in DOMAIN files[patterns_path.v]
      THEN [raised |-> TRUE, error |-> "JSONDecodeError"]
      ELSE Entries(Get(files[patterns_path.v], "patterns", <<>>))

\* PatternMatcher.__init__ raises when a pattern does not compile
PatternMatcher__init__(patterns) ==
  IF \E i \in 1..Len(patterns) :
       \E j \in 1..Len(patterns[i].subject_patterns) :
         ~Compiles(patterns[i].subject_patterns[j])
  THEN [raised |-> TRUE, error |-> "re.error"]
  ELSE [raised |-> FALSE]

SYSTEM_SENDER_TOKENS ==
  << <<"noreply">>, <<"no-reply">>, <<"notification", "@">>, <<"alert", "@">>,
     <<"mailer-daemon">>, <<"postmaster">>, <<"datorama.com">>, <<"sisense.com">>,
     <<"apps-scripts-notifications", "@", "google.com">>, <<"do-not-reply">>,
     <<"donotreply">>, <<"auto-reply">>, <<"automated">>, <<"bounce">> >>

\* the --patterns argument
PATTERNS_PATH == <<"config", <<"patterns", ".json">> >>

\* entries of a catalog file
E_ACME ==
  [partner_name |-> "Acme", sender_patterns |-> <<ANY_ACME>>,
   subject_patterns |-> <<Adj({"performance"}, {"report"})>>,
   expected_columns |-> COLS4, auto_process |-> FALSE, confidence_threshold |-> D045]

E_NO_SENDERS == [partner_name |-> "Acme", auto_process |-> FALSE, confidence_threshold |-> D045]

E_NO_AUTO ==
  [partner_name |-> "Acme", sender_patterns |-> <<ANY_ACME>>, confidence_threshold |-> D045]

E_NO_THRESHOLD ==
  [partner_name |-> "Acme", sender_patterns |-> <<ANY_ACME>>, auto_process |-> FALSE]

E_NO_NAME == [sender_patterns |-> <<ANY_ACME>>, auto_process |-> TRUE, confidence_threshold |-> D080]

E_BAD_REGEX ==
  [partner_name |-> "Acme", sender_patterns |-> <<ANY_ACME>>,
   subject_patterns |-> <<BAD_REGEX>>, auto_process |-> TRUE, confidence_threshold |-> D080]

CatalogEntries == {E_ACME, E_NO_SENDERS, E_NO_AUTO, E_NO_THRESHOLD, E_NO_NAME, E_BAD_REGEX}

MaxEntries == 2

\* what the catalog file can hold
CatalogFiles ==
  {NOT_JSON, [version |-> 1]}
  \cup UNION { {[patterns |-> es] : es \in [1..n -> CatalogEntries]} : n \in 0..MaxEntries }


(***************************************************************************)
(* State                                                                   *)
(***************************************************************************)
VARIABLES
  scanner,      \* the EmailScanner: catalog, block lists, extraction directory
  gmail,        \* the mail collaborator: the keyword parameters its fetch_emails takes
  mailbox,      \* the messages the listing query finds, in listing order
  max_results,  \* the max_results argument of scan
  pc,           \* where the call of scan (or of scan_email) stands
  msg_refs,     \* fetch_emails: the listed references after the [:max_results] slice
  pos,          \* fetch_emails: index of the next reference to fetch
  email,        \* the message fetch_emails has yielded to the loop body
  results,      \* the run accumulator of scan
  scan_result,  \* what scan_email did for the last message (result or exception)
  cls,          \* what EmailClassifier.classify returned when called on its own
  trace,        \* one entry per execution of the loop body: message id and outcome
  dropped,      \* ids of the messages fetch_emails skipped after an HttpError
  fs,           \* files on disk: the catalog file, the files below the extraction directory
  raised,       \* the exception that left scan (or main), if any
  args,         \* main: the parsed command line
  catalog,      \* main: what load_patterns returned
  clock,        \* the wall clock, in seconds
  runs          \* the runs that share the extraction directory, each inside scan

vars == <<scanner, gmail, mailbox, max_results, pc, msg_refs, pos, email, results,
          scan_result, cls, trace, dropped, fs, raised, args, catalog, clock, runs>>

MaxMsgs == 2

MessageIds == << <<"18c0ffee", "01">>, <<"18c0ffee", "02">>, <<"18c0ffee", "03">>,
                 <<"18c0ffee", "04">> >>

\* the messages of the runs: constructor arguments of Email without the id, and the date
RunTemplates ==
  { <<FROM_ACME, SUBJ_A, Some(BODY_A), None, <<ATT_CSV>>, DATETIME>>,
    <<FROM_ACME, SUBJ_HIGH, None, Some(BODY_LINK), <<ATT_PNG, ATT_CSV, ATT_CSV2>>, DATETIME>>,
    <<FROM_BILLING, SUBJ_A, Some(BODY_A), None, <<ATT_XLSX>>, DATETIME>>,
    <<FROM_OTHER, SUBJ_PLAIN, Some(BODY_CHAT), None, <<>>, DATETIME>>,
    <<FROM_ACME, SUBJ_A, Some(BODY_A), None, <<ATT_CSV>>, TEXT_DATE>> }

RunScanners ==
  { EmailScanner(<<P_ACME>>, [senders |-> << <<"billing">> >>, domains |-> <<>>], "extracts"),
    EmailScanner(<<P_BADCOLS>>, [senders |-> <<>>, domains |-> <<>>], "extracts") }

MaxResultsArgs == {-1, 1, 100}

Mailboxes ==
  UNION { { [i \in 1..n |->
               [Email(MessageIds[i], t[i][1], t[i][2], t[i][3], t[i][4], t[i][5])
                  EXCEPT !.date = t[i][6]]] :
            t \in [1..n -> RunTemplates] } : n \in 0..MaxMsgs }

Init ==
  /\ scanner \in RunScanners
  /\ gmail \in {[params |-> FetchEmailsParams], [params |-> FetchEmailsParams \cup {"labels"}]}
  /\ mailbox \in Mailboxes
  /\ max_results \in MaxResultsArgs
  /\ pc = "idle"
  /\ msg_refs = <<>>
  /\ pos = 0
  /\ email = None
  /\ results = None
  /\ scan_result = None
  /\ cls = None
  /\ trace = <<>>
  /\ dropped = <<>>
  /\ fs = <<>>
  /\ raised = None
  /\ args = None
  /\ catalog = None
  /\ clock = 1
  /\ runs = <<>>

RunId == <<"es", "20260102-030405">>

(***************************************************************************)
(* EmailScanner.scan, with the generator GmailClient.fetch_emails          *)
(***************************************************************************)
\* scan up to and including the call self.gmail.fetch_emails(...): the
\* keyword arguments are bound when the generator function is called
Scan_Call ==
  /\ pc = "idle"
  /\ results' = [run_id |-> RunId, started_at |-> "t0", completed_at |-> None,
                 emails_scanned |-> 0, emails_classified_as_data |-> 0,
                 auto_processed |-> <<>>, review_queue |-> <<>>, errors |-> <<>>]
  /\ IF ScanCallKwargs \subseteq gmail.params
     THEN pc' = "generator" /\ raised' = raised
     ELSE pc' = "raised" /\ raised' = Some("TypeError")
  /\ UNCHANGED <<args, catalog, clock, runs>>
  /\ UNCHANGED <<scanner, gmail, mailbox, max_results, msg_refs, pos, email,
                 scan_result, cls, trace, dropped, fs>>

\* fetch_emails up to the loop over msg_refs: list_message_ids, then the slice
Fetch_List ==
  /\ pc = "generator"
  /\ \E outcome \in {"ok", "error"} :
       IF outcome = "ok"
       THEN /\ msg_refs' = SliceTo([i \in 1..Len(mailbox) |-> i], max_results)
            /\ pos' = 1
            /\ pc' = "fetching"
            /\ raised' = raised
       ELSE /\ pc' = "raised"
            /\ raised' = Some("list_message_ids")
            /\ UNCHANGED <<msg_refs, pos>>
  /\ UNCHANGED <<args, catalog, clock, runs>>
  /\ UNCHANGED <<scanner, gmail, mailbox, max_results, email, results,
                 scan_result, cls, trace, dropped, fs>>

\* fetch_emails, one round of `for msg_ref in msg_refs`: _fetch_message_details
\* returns the message (yield), raises HttpError (logged, continue) or raises
\* something else, which leaves the generator and scan
Fetch_Message ==
  /\ pc = "fetching"
  /\ pos <= Len(msg_refs)
  /\ \E outcome \in {"ok", "HttpError", "OtherError"} :
       CASE outcome = "ok" ->
              /\ email' = Some(mailbox[msg_refs[pos]])
              /\ pos' = pos + 1
              /\ pc' = "body"
              /\ UNCHANGED <<dropped, raised>>
         [] outcome = "HttpError" ->
              /\ dropped' = Append(dropped, mailbox[msg_refs[pos]].message_id)
              /\ pos' = pos + 1
              /\ UNCHANGED <<email, pc, raised>>
         [] outcome = "OtherError" ->
              /\ pc' = "raised"
              /\ raised' = Some("_fetch_message_details")
              /\ UNCHANGED <<email, pos, dropped>>
  /\ UNCHANGED <<args, catalog, clock, runs>>
  /\ UNCHANGED <<scanner, gmail, mailbox, max_results, msg_refs, results,
                 scan_result, cls, trace, fs>>

\* Accumulate that counts a message as data only once its payload or review
\* item has been formatted
Accumulate_CountAfterFormat(res, em, r) ==
  LET r1 == [res EXCEPT !.emails_scanned = @ + 1]
  IN  IF r.raised
      THEN [r1 EXCEPT !.errors = Append(@, [email_id |-> em.message_id, error |-> r.error])]
      ELSE IF FormatRaises(r)
      THEN [r1 EXCEPT !.errors = Append(@, [email_id |-> em.message_id, error |-> NO_ISOFORMAT])]
      ELSE LET r2 == IF r.classification.classification # "NOT_DATA"
                     THEN [r1 EXCEPT !.emails_classified_as_data = @ + 1]
                     ELSE r1
           IN  IF r.route_action = "auto_process"
               THEN [r2 EXCEPT !.auto_processed =
                       Append(@, _format_auto_process_payload(r, res.run_id))]
               ELSE IF r.route_action = "review"
               THEN [r2 EXCEPT !.review_queue = Append(@, _format_review_item(r, res.run_id))]
               ELSE r2


\* Accumulate that counts a message only once scan_email has returned
Accumulate_CountAfterScan(res, em, r) ==
  IF r.raised
  THEN [res EXCEPT !.errors = Append(@, [email_id |-> em.message_id, error |-> r.error])]
  ELSE LET r1 == [res EXCEPT !.emails_scanned = @ + 1]
           r2 == IF r.classification.classification # "NOT_DATA"
                 THEN [r1 EXCEPT !.emails_classified_as_data = @ + 1]
                 ELSE r1
       IN  IF FormatRaises(r)
           THEN [r2 EXCEPT !.errors =
                   Append(@, [email_id |-> em.message_id, error |-> NO_ISOFORMAT])]
           ELSE IF r.route_action = "auto_process"
           THEN [r2 EXCEPT !.auto_processed =
                   Append(@, _format_auto_process_payload(r, res.run_id))]
           ELSE IF r.route_action = "review"
           THEN [r2 EXCEPT !.review_queue = Append(@, _format_review_item(r, res.run_id))]
           ELSE r2

\* Accumulate whose except clause logs the exception and records nothing
Accumulate_LogOnly(res, em, r) ==
  LET r1 == [res EXCEPT !.emails_scanned = @ + 1]
  IN  IF r.raised
      THEN r1
      ELSE LET r2 == IF r.classification.classification # "NOT_DATA"
                     THEN [r1 EXCEPT !.emails_classified_as_data = @ + 1]
                     ELSE r1
           IN  IF FormatRaises(r)
               THEN r2
               ELSE IF r.route_action = "auto_process"
               THEN [r2 EXCEPT !.auto_processed =
                       Append(@, _format_auto_process_payload(r, res.run_id))]
               ELSE IF r.route_action = "review"
               THEN [r2 EXCEPT !.review_queue = Append(@, _format_review_item(r, res.run_id))]
               ELSE r2


\* the run accumulator after the loop body has handled message em, for which
\* scan_email did r
Accumulate(res, em, r) ==
  LET r1 == [res EXCEPT !.emails_scanned = @ + 1]
  IN  IF r.raised
      THEN [r1 EXCEPT !.errors = Append(@, [email_id |-> em.message_id, error |-> r.error])]
      ELSE LET r2 == IF r.classification.classification # "NOT_DATA"
                     THEN [r1 EXCEPT !.emails_classified_as_data = @ + 1]
                     ELSE r1
           IN  IF FormatRaises(r)
               THEN [r2 EXCEPT !.errors =
                       Append(@, [email_id |-> em.message_id, error |-> NO_ISOFORMAT])]
               ELSE IF r.route_action = "auto_process"
               THEN [r2 EXCEPT !.auto_processed =
                       Append(@, _format_auto_process_payload(r, res.run_id))]
               ELSE IF r.route_action = "review"
               THEN [r2 EXCEPT !.review_queue = Append(@, _format_review_item(r, res.run_id))]
               ELSE r2

\* the body of the for loop of scan for the yielded message
Scan_Body ==
  /\ pc = "body"
  /\ \E env \in Envs(email.v) :
       LET Handled(r) ==
             /\ scan_result' = Some(r)
             /\ fs' = r.fs
             /\ results' = Accumulate(results, email.v, r)
             /\ trace' = Append(trace, [email_id |-> email.v.message_id,
                                        outcome |-> IF r.raised \/ FormatRaises(r)
                                                    THEN "error"
                                                    ELSE r.route_action])
       IN  Handled(scan_email(email.v, scanner, results.run_id, env, fs))
  /\ pc' = "fetching"
  /\ UNCHANGED <<args, catalog, clock, runs>>
  /\ UNCHANGED <<scanner, gmail, mailbox, max_results, msg_refs, pos, email,
                 cls, dropped, raised>>

\* the generator is exhausted: completed_at is set and the summary returned
Scan_Return ==
  /\ pc = "fetching"
  /\ pos > Len(msg_refs)
  /\ results' = [results EXCEPT !.completed_at = Some("t1")]
  /\ pc' = "returned"
  /\ UNCHANGED <<args, catalog, clock, runs>>
  /\ UNCHANGED <<scanner, gmail, mailbox, max_results, msg_refs, pos, email,
                 scan_result, cls, trace, dropped, fs, raised>>

Next == Scan_Call \/ Fetch_List \/ Fetch_Message \/ Scan_Body \/ Scan_Return

Spec == Init /\ [][Next]_vars

(***************************************************************************)
(* run_scan.main from the parsed arguments to the call of scan             *)
(***************************************************************************)
InitLoad ==
  /\ scanner = None
  /\ gmail \in {[params |-> FetchEmailsParams], [params |-> FetchEmailsParams \cup {"labels"}]}
  /\ mailbox = <<>>
  /\ max_results = 100
  /\ pc = "main"
  /\ msg_refs = <<>>
  /\ pos = 0
  /\ email = None
  /\ results = None
  /\ scan_result = None
  /\ cls = None
  /\ trace = <<>>
  /\ dropped = <<>>
  /\ fs \in {<<>>} \cup {PATTERNS_PATH :> f : f \in CatalogFiles}
  /\ raised = None
  /\ args \in {Some([patterns |-> None]), Some([patterns |-> Some(PATTERNS_PATH)])}
  /\ catalog = None
  /\ clock = 1
  /\ runs = <<>>

\* patterns = load_patterns(args.patterns) if args.patterns else []
Load_Patterns ==
  /\ pc = "main"
  /\ LET Loaded(r) ==
           IF r.raised
           THEN pc' = "raised" /\ raised' = Some(r.error) /\ catalog' = catalog
           ELSE pc' = "loaded" /\ raised' = raised /\ catalog' = Some(r.patterns)
     IN  Loaded(load_patterns(args.v.patterns, fs))
  /\ UNCHANGED <<scanner, gmail, mailbox, max_results, msg_refs, pos, email, results,
                 scan_result, cls, trace, dropped, fs, args, clock, runs>>

\* scanner = EmailScanner(gmail_client, patterns, extraction_dir, blocklist_senders)
Create_Scanner ==
  /\ pc = "loaded"
  /\ LET Compiled(r) ==
           IF r.raised
           THEN pc' = "raised" /\ raised' = Some(r.error) /\ scanner' = scanner
           ELSE /\ pc' = "idle"
                /\ raised' = raised
                /\ scanner' = EmailScanner(catalog.v,
                                            [senders |-> SYSTEM_SENDER_TOKENS, domains |-> <<>>],
                                            "extracts")
     IN  Compiled(PatternMatcher__init__(catalog.v))
  /\ UNCHANGED <<gmail, mailbox, max_results, msg_refs, pos, email, results,
                 scan_result, cls, trace, dropped, fs, args, catalog, clock, runs>>

NextLoad == Load_Patterns \/ Create_Scanner \/ Scan_Call

SpecLoad == InitLoad /\ [][NextLoad]_vars


(***************************************************************************)
(* Two runs of scan that share the extraction directory: the run id taken  *)
(* from the clock, and save_attachment step by step                        *)
(***************************************************************************)
MaxClock == 2

\* datetime.now().strftime('%Y%m%d-%H%M%S') at the seconds of the clock
Stamps == <<"20260102-030405", "20260102-030406", "20260102-030407", "20260102-030408">>

\* f"es-{...}"
StampId(t) == <<"es", Stamps[t]>>

RunNos == {1, 2}

\* the data-file attachments of the message a run works on
RunTodos == { <<ATT_CSV>>, <<ATT_CSV, ATT_CSV2>>, <<ATT_XLSX>>, <<ATT_JSON, ATT_CSV>> }

\* save_attachment up to the first file_path.exists() for the next attachment
\* of the run, or the end of the attachment loop
NextAttachment(run) ==
  IF run.todo = <<>> THEN [run EXCEPT !.pc = "done"]
  ELSE [run EXCEPT !.pc = "exists", !.file_name = SafeName(run.todo[1].filename),
                   !.counter = 1]

\* extract_path / file name of the attachment the run is saving
FilePath(run) == << <<"extracts", run.run_id.v>>, run.file_name >>

InitConcurrent ==
  /\ scanner = EmailScanner(<<>>, [senders |-> <<>>, domains |-> <<>>], "extracts")
  /\ gmail = [params |-> FetchEmailsParams \cup {"labels"}]
  /\ mailbox = <<>>
  /\ max_results = 100
  /\ pc = "concurrent"
  /\ msg_refs = <<>>
  /\ pos = 0
  /\ email = None
  /\ results = None
  /\ scan_result = None
  /\ cls = None
  /\ trace = <<>>
  /\ dropped = <<>>
  /\ fs = <<>>
  /\ raised = None
  /\ args = None
  /\ catalog = None
  /\ clock = 1
  /\ runs \in [RunNos -> {[pc |-> "idle", run_id |-> None, message_id |-> MessageIds[1],
                           todo |-> t, file_name |-> <<>>, counter |-> 1, saved |-> <<>>] :
                          t \in RunTodos}]

\* a second passes
Tick ==
  /\ clock < MaxClock
  /\ clock' = clock + 1
  /\ UNCHANGED <<scanner, gmail, mailbox, max_results, pc, msg_refs, pos, email, results,
                 scan_result, cls, trace, dropped, fs, raised, args, catalog, runs>>

\* run_id = f"es-{datetime.now().strftime('%Y%m%d-%H%M%S')}", then the run
\* reaches save_attachment for its first attachment
Run_Start(r) ==
  /\ runs[r].pc = "idle"
  /\ runs' = [runs EXCEPT ![r] =
                NextAttachment([@ EXCEPT !.run_id = Some(StampId(clock)),
                                         !.message_id = MessageIds[r]])]
  /\ UNCHANGED <<scanner, gmail, mailbox, max_results, pc, msg_refs, pos, email, results,
                 scan_result, cls, trace, dropped, fs, raised, args, catalog, clock>>

\* one evaluation of `while file_path.exists()`
Save_Exists(r) ==
  /\ runs[r].pc = "exists"
  /\ runs' = [runs EXCEPT ![r] =
                IF FilePath(@) \in DOMAIN fs
                THEN [@ EXCEPT !.file_name = WithCounter(@, runs[r].counter),
                               !.counter = @ + 1]
                ELSE [@ EXCEPT !.pc = "write"]]
  /\ UNCHANGED <<scanner, gmail, mailbox, max_results, pc, msg_refs, pos, email, results,
                 scan_result, cls, trace, dropped, fs, raised, args, catalog, clock>>

\* data = self.download_attachment(...); file_path.write_bytes(data); the
\* run records the asset and goes on to its next attachment
Save_Write(r) ==
  /\ runs[r].pc = "write"
  /\ \E download \in {"ok", "error"} :
       IF download = "ok"
       THEN /\ fs' = (FilePath(runs[r]) :> <<runs[r].message_id, runs[r].todo[1].attachment_id>>)
                        @@ fs
            /\ runs' = [runs EXCEPT ![r] =
                          NextAttachment([@ EXCEPT
                            !.saved = Append(@, [file_path |-> FilePath(runs[r]),
                                                 bytes |-> <<runs[r].message_id,
                                                             runs[r].todo[1].attachment_id>>]),
                            !.todo = Tail(@)])]
       ELSE /\ fs' = fs
            /\ runs' = [runs EXCEPT ![r] = NextAttachment([@ EXCEPT !.todo = Tail(@)])]
  /\ UNCHANGED <<scanner, gmail, mailbox, max_results, pc, msg_refs, pos, email, results,
                 scan_result, cls, trace, dropped, raised, args, catalog, clock>>

NextConcurrent ==
  \/ Tick
  \/ \E r \in RunNos : Run_Start(r)
  \/ \E r \in RunNos : Save_Exists(r)
  \/ \E r \in RunNos : Save_Write(r)

SpecConcurrent == InitConcurrent /\ [][NextConcurrent]_vars

(***************************************************************************)
(* One message: EmailScanner.scan_email and EmailClassifier.classify       *)
(* called directly, on a wider set of messages, catalogs and block lists   *)
(***************************************************************************)
Senders == {FROM_ACME, FROM_BILLING, FROM_DISPLAY, FROM_OTHER}

Subjects ==
  {SUBJ_A, SUBJ_B, SUBJ_PLAIN, SUBJ_REPLY, SUBJ_INVOICE, SUBJ_HIGH, SUBJ_HIMED,
   SUBJ_FWD_HIGH, <<>>}

Bodies ==
  { <<None, None>>, <<Some(BODY_A), None>>, <<Some(<<>>), Some(BODY_ALL)>>,
    <<Some(BODY_LINK), None>>, <<Some(BODY_METRIC), None>>, <<None, Some(BODY_CHAT)>> }

AttachmentLists ==
  { <<>>, <<ATT_XLSX>>, <<ATT_CSV>>, <<ATT_PNG, ATT_JSON>>, <<ATT_CSV, ATT_CSV2>> }

Emails ==
  { Email(MessageIds[1], f, s, b[1], b[2], a) :
      f \in Senders, s \in Subjects, b \in Bodies, a \in AttachmentLists }

\* the messages scan_email is called on
ScanEmails ==
  { m \in Emails :
      /\ m.subject \in {SUBJ_A, SUBJ_B, SUBJ_PLAIN, SUBJ_REPLY, SUBJ_INVOICE, SUBJ_HIGH, SUBJ_HIMED}
      /\ <<m.body_text, m.body_html>> \in
           { <<None, None>>, <<Some(BODY_A), None>>, <<Some(<<>>), Some(BODY_ALL)>>,
             <<Some(BODY_LINK), None>> } }

NoBlocklist == [senders |-> <<>>, domains |-> <<>>]

EmailScanners ==
  { EmailScanner(c, NoBlocklist, "extracts") : c \in Catalogs }
  \cup { EmailScanner(<<P_ACME>>, b, "extracts") : b \in Blocklists }

InitEmail ==
  /\ scanner \in EmailScanners
  /\ gmail = [params |-> FetchEmailsParams]
  /\ mailbox = <<>>
  /\ max_results = 100
  /\ pc = "email"
  /\ msg_refs = <<>>
  /\ pos = 0
  /\ email \in {Some(e) : e \in ScanEmails}
  /\ results = None
  /\ scan_result = None
  /\ cls = None
  /\ trace = <<>>
  /\ dropped = <<>>
  /\ fs = <<>>
  /\ raised = None
  /\ args = None
  /\ catalog = None
  /\ clock = 1
  /\ runs = <<>>

\* scan_email(email, run_id)
Scan_Email ==
  /\ pc = "email"
  /\ \E env \in Envs(email.v) :
       LET Returned(r) == scan_result' = Some(r) /\ fs' = r.fs
       IN  Returned(scan_email(email.v, scanner, RunId, env, fs))
  /\ pc' = "scanned"
  /\ UNCHANGED <<args, catalog, clock, runs>>
  /\ UNCHANGED <<scanner, gmail, mailbox, max_results, msg_refs, pos, email, results,
                 cls, trace, dropped, raised>>

\* classifier.classify(email)
Classify ==
  /\ pc = "email"
  /\ cls' = Some(classify(email.v))
  /\ pc' = "classified"
  /\ UNCHANGED <<args, catalog, clock, runs>>
  /\ UNCHANGED <<scanner, gmail, mailbox, max_results, msg_refs, pos, email, results,
                 scan_result, trace, dropped, fs, raised>>

NextEmail == Scan_Email

SpecEmail == InitEmail /\ [][NextEmail]_vars

\* classification does not look at the sender, the catalog or the block lists
InitClassify ==
  /\ scanner = EmailScanner(<<>>, NoBlocklist, "extracts")
  /\ gmail = [params |-> FetchEmailsParams]
  /\ mailbox = <<>>
  /\ max_results = 100
  /\ pc = "email"
  /\ msg_refs = <<>>
  /\ pos = 0
  /\ email \in {Some(e) : e \in {m \in Emails : m.from_address = FROM_OTHER}}
  /\ results = None
  /\ scan_result = None
  /\ cls = None
  /\ trace = <<>>
  /\ dropped = <<>>
  /\ fs = <<>>
  /\ raised = None
  /\ args = None
  /\ catalog = None
  /\ clock = 1
  /\ runs = <<>>

NextClassify == Classify

SpecClassify == InitClassify /\ [][NextClassify]_vars

(***************************************************************************)
(* Properties                                                              *)
(***************************************************************************)
\* the result of the call of scan_email that has just returned
SR == scan_result.v

Patterns == scanner.patterns

\* the catalog entry with the highest score above 0, the earliest of them
Winner(patterns, em, assets) ==
  LET sc(i) == EntryScore(patterns[i], em, assets).score
      top   == {i \in 1..Len(patterns) :
                  /\ FGt(sc(i), DZero)
                  /\ \A j \in 1..Len(patterns) : ~FGt(sc(j), sc(i))}
  IN  IF top = {} THEN 0 ELSE CHOOSE i \in top : \A j \in top : i <= j

\* C1: a message that is not skipped is routed to auto_process exactly when
\* the matcher found an entry, the entry that produced the winning match has
\* auto_process set and the confidence reaches that entry's threshold;
\* otherwise it is routed to review.
C1_AutoProcessIffWinningEntryAllows ==
  (pc = "scanned" /\ ~SR.raised /\ SR.route_action # "skip") =>
    LET w == Winner(Patterns, email.v, SR.extracted_assets)
    IN  /\ SR.route_action \in {"auto_process", "review"}
        /\ (SR.route_action = "auto_process")
             <=> /\ w # 0
                 /\ Patterns[w].auto_process
                 /\ FGe(SR.pattern_match_confidence, Patterns[w].confidence_threshold)

Blocked == is_blocklisted(email.v, scanner.blocklist_senders, scanner.blocklist_domains)

\* C2: scan_email routes a message to skip exactly when its sender is
\* blocklisted or the classifier says NOT_DATA.
C2_SkipIffBlockedOrNotData ==
  (pc = "scanned" /\ ~SR.raised) =>
    ((SR.route_action = "skip")
       <=> (Blocked \/ classify(email.v).classification = "NOT_DATA"))

C2_Witness ==
  /\ pc = "scanned"
  /\ ~SR.raised
  /\ SR.route_action = "skip"
  /\ Blocked
  /\ classify(email.v).classification = "DATA_HIGH_CONFIDENCE"

IsError(t) == t.outcome = "error"
IsReview(t) == t.outcome = "review"
IsAuto(t) == t.outcome = "auto_process"
IsSkip(t) == t.outcome = "skip"

\* C3: every message counted in emails_scanned has exactly one outcome: an
\* entry of auto_processed, of review_queue or of errors, or a skip.
C3_OneOutcomePerScannedMessage ==
  results # None =>
    /\ Len(trace) = results.emails_scanned
    /\ \A i, j \in 1..Len(trace) : trace[i].email_id = trace[j].email_id => i = j
    /\ \A i \in 1..Len(trace) : trace[i].outcome \in {"auto_process", "review", "skip", "error"}
    /\ Len(results.auto_processed) = Len(SelectSeq(trace, IsAuto))
    /\ [i \in 1..Len(results.review_queue) |-> results.review_queue[i].email_summary.message_id]
         = [i \in 1..Len(SelectSeq(trace, IsReview)) |-> SelectSeq(trace, IsReview)[i].email_id]
    /\ [i \in 1..Len(results.errors) |-> results.errors[i].email_id]
         = [i \in 1..Len(SelectSeq(trace, IsError)) |-> SelectSeq(trace, IsError)[i].email_id]
    /\ results.emails_scanned
         = Len(results.auto_processed) + Len(results.review_queue) + Len(results.errors)
           + Len(SelectSeq(trace, IsSkip))

C3_Witness ==
  /\ pc = "returned"
  /\ results.emails_scanned = 2
  /\ Len(results.errors) = 1
  /\ Len(SelectSeq(trace, IsSkip)) = 1

\* C4: when the pipeline of a message raises, the loop body appends one
\* errors entry with that message's id and the run goes on; a returned
\* summary lists every message whose pipeline raised.
C4_PipelineFailureIsRecordedAndRunGoesOn ==
  /\ [][(pc = "body" /\ pc' # "body" /\ scan_result'.v.raised) =>
          /\ results'.errors = Append(results.errors,
                                      [email_id |-> email.v.message_id,
                                       error |-> scan_result'.v.error])
          /\ pc' = "fetching"
          /\ raised' = None
          /\ <<msg_refs', pos'>> = <<msg_refs, pos>>]_vars
  /\ [](pc = "returned" =>
          \A i \in 1..Len(trace) :
            trace[i].outcome = "error" =>
              \E j \in 1..Len(results.errors) : results.errors[j].email_id = trace[i].email_id)

C4_Witness ==
  /\ pc = "returned"
  /\ Len(trace) = 2
  /\ trace[1].outcome = "error"
  /\ results.errors = <<[email_id |-> trace[1].email_id, error |-> "AttributeError"]>>
  /\ ~results.completed_at.none

\* C5: a transport error while a message's details are fetched or one of its
\* attachments is downloaded gets an entry in the errors list and does not
\* abort the run.
C5_TransportErrorsAreListedAndRunGoesOn ==
  /\ raised # Some("_fetch_message_details")
  /\ \A i \in 1..Len(dropped) :
       \E j \in 1..Len(results.errors) : results.errors[j].email_id = dropped[i]
  /\ (pc = "fetching" /\ scan_result # None /\ ~SR.raised) =>
       \A i \in 1..Len(SR.extracted_assets) :
         ~SR.extracted_assets[i].error.none =>
           \E j \in 1..Len(results.errors) :
             results.errors[j].email_id = SR.extracted_assets[i].source_email_id

\* C6: the call from scan into GmailClient.fetch_emails, with the arguments
\* scan passes, succeeds (so that scan can go on to return its summary).
C6_FetchEmailsCallSucceeds ==
  gmail.params = FetchEmailsParams => raised # Some("TypeError")

InUnitInterval(x) == FGe(x, DZero) /\ FGe(DOne, x)

\* C7: the score of the ClassificationResult scan_email returns is in [0, 1].
C7_ScoreInUnitInterval ==
  (pc = "scanned" /\ ~SR.raised) => InUnitInterval(SR.classification.score)

C7_Witness ==
  /\ pc = "scanned"
  /\ ~SR.raised
  /\ ~Blocked
  /\ FGt(RawScore(email.v), DOne)
  /\ SR.classification.score = DOne

C8_T070 == Dbl(375809638, 214748352)
C8_T050 == Dbl(268435456, 0)
C8_T030 == Dbl(161061273, 322122544)

Rank(c) ==
  CASE c = "DATA_HIGH_CONFIDENCE" -> 3
    [] c = "DATA_MEDIUM_CONFIDENCE" -> 2
    [] c = "UNCERTAIN" -> 1
    [] c = "NOT_DATA" -> 0

NoSkipPattern(subject) ==
  \A i \in 1..Len(SKIP_SUBJECT_PATTERNS) : ~Search(SKIP_SUBJECT_PATTERNS[i], subject)

C8_Others ==
  { m \in Emails :
      /\ m.from_address = FROM_OTHER
      /\ m.attachments \in {<<>>, <<ATT_CSV>>, <<ATT_PNG, ATT_JSON>>}
      /\ NoSkipPattern(m.subject) }

\* C8: without a skip pattern the bucket is a function of the score alone,
\* by the thresholds 0.70 / 0.50 / 0.30, and a message with a score at least
\* as high as another's never gets a lower bucket.
C8_BucketByThresholdsMonotone ==
  (pc = "classified" /\ NoSkipPattern(email.v.subject)) =>
    /\ cls.v.classification =
         (IF FGe(cls.v.score, C8_T070) THEN "DATA_HIGH_CONFIDENCE"
          ELSE IF FGe(cls.v.score, C8_T050) THEN "DATA_MEDIUM_CONFIDENCE"
          ELSE IF FGe(cls.v.score, C8_T030) THEN "UNCERTAIN"
          ELSE "NOT_DATA")
    /\ \A m \in C8_Others :
         FGe(cls.v.score, classify(m).score)
           => Rank(cls.v.classification) >= Rank(classify(m).classification)

\* the message scores 0.30 + 0.15 + 0.05, which is just below 0.50 in
\* binary64, and is UNCERTAIN
C8_Witness ==
  /\ pc = "classified"
  /\ NoSkipPattern(email.v.subject)
  /\ cls.v.classification = "UNCERTAIN"
  /\ FLt(cls.v.score, C8_T050)
  /\ FGt(FAdd(cls.v.score, Dbl(0, 64)), cls.v.score)
  /\ FGe(FAdd(cls.v.score, Dbl(0, 64)), C8_T050)

\* C9: a subject that matches a skip pattern makes classify return NOT_DATA
\* with score 0 whatever else the message holds, and scan_email route the
\* message to skip without extracting anything.
C9_SkipPatternForcesNotData ==
  (pc = "scanned" /\ ~NoSkipPattern(email.v.subject)) =>
    /\ classify(email.v).classification = "NOT_DATA"
    /\ classify(email.v).score = DZero
    /\ ~SR.raised
    /\ SR.route_action = "skip"
    /\ SR.extracted_assets = <<>>
    /\ fs = <<>>

C9_Witness ==
  /\ pc = "scanned"
  /\ ~NoSkipPattern(email.v.subject)
  /\ ~Blocked
  /\ FirstMatch(HIGH_CONF_SUBJECT_PATTERNS, email.v.subject) # 0
  /\ FGe(Clamp(RawScore(email.v)), C8_T070)
  /\ email.v.attachments # <<>>
  /\ SR.route_action = "skip"
  /\ SR.extracted_assets = <<>>

\* the sender's domain is d: d follows the "@" and ends the address
DomainIs(from, d) ==
  \E i \in 1..Len(from) :
    /\ from[i] = "@"
    /\ i + Len(d) <= Len(from)
    /\ SubSeq(from, i + 1, i + Len(d)) = d
    /\ (i + Len(d) = Len(from) \/ from[i + Len(d) + 1] = ">")

\* the sender matches the block list: a deny-list entry is a substring of the
\* lower-cased sender, or a "*@domain" or domain entry names the sender's domain
SenderMatchesBlocklist ==
  LET from == LowerStr(email.v.from_address)
  IN  \/ \E i \in 1..Len(scanner.blocklist_senders) :
           LET entry == scanner.blocklist_senders[i]
           IN  IF Len(entry) >= 2 /\ entry[1] = "*" /\ entry[2] = "@"
               THEN DomainIs(from, SubSeq(entry, 3, Len(entry)))
               ELSE Contains(from, entry)
      \/ \E i \in 1..Len(scanner.blocklist_domains) :
           DomainIs(from, scanner.blocklist_domains[i])

\* C10: a message whose sender matches the block list is NOT_DATA and
\* skipped, whatever its subject, body and attachments are.
C10_BlocklistedSenderIsSkipped ==
  (pc = "scanned" /\ SenderMatchesBlocklist) =>
    /\ ~SR.raised
    /\ SR.classification.classification = "NOT_DATA"
    /\ SR.route_action = "skip"
    /\ SR.extracted_assets = <<>>

\* C11: for a message that is blocklisted or classified NOT_DATA nothing is
\* downloaded and the matcher is not invoked: whatever the downloads would
\* have done, the call returns skip with no asset, no file written and no
\* match data; for any other message the matcher has run on the assets that
\* extraction produced.
C11_StepsInOrder ==
  pc = "scanned" =>
    IF Blocked \/ classify(email.v).classification = "NOT_DATA"
    THEN /\ \A env \in Envs(email.v) :
              scan_email(email.v, scanner, RunId, env, <<>>) = SR
         /\ ~SR.raised
         /\ SR.route_action = "skip"
         /\ SR.extracted_assets = <<>>
         /\ fs = <<>>
         /\ SR.matched_partner = None
         /\ SR.pattern_match_confidence = DZero
         /\ SR.classification.matched_patterns = <<>>
    ELSE ~SR.raised =>
           /\ SR.route_action # "skip"
           /\ SR.classification.matched_patterns
                = match(Patterns, email.v, SR.extracted_assets).factors
           /\ SR.matched_partner = match(Patterns, email.v, SR.extracted_assets).partner

\* a NOT_DATA message with a data-file attachment, several download outcomes
\* and a catalog whose matcher would raise on any column list
C11_Witness ==
  /\ pc = "scanned"
  /\ ~Blocked
  /\ classify(email.v).classification = "NOT_DATA"
  /\ \E i \in 1..Len(email.v.attachments) :
       Lower(Suffix(email.v.attachments[i].filename)) \in DATA_EXTENSIONS
  /\ Cardinality(Envs(email.v)) > 1
  /\ Patterns = <<P_BADCOLS>>
  /\ SR.route_action = "skip"
  /\ SR.extracted_assets = <<>>

IsDataFile(att) == Lower(Suffix(att.filename)) \in DATA_EXTENSIONS

IsAttachmentAsset(asset) == asset.asset_type = "attachment"

\* C12: in the asset list of a message every attachment asset precedes every
\* link asset, and the attachment assets are those of the message's data-file
\* attachments in message order, failed downloads included.
C12_AttachmentsBeforeLinksInOrder ==
  (pc = "scanned" /\ ~SR.raised) =>
    LET assets == SR.extracted_assets
        atts   == SelectSeq(assets, IsAttachmentAsset)
        data   == SelectSeq(email.v.attachments, IsDataFile)
    IN  /\ \A i, j \in 1..Len(assets) :
             (assets[i].asset_type = "link" /\ assets[j].asset_type = "attachment") => j < i
        /\ SR.route_action # "skip" => Len(atts) = Len(data)
        /\ \A k \in 1..Len(atts) :
             /\ atts[k].filename = Some(data[k].filename)
             /\ atts[k].error.none => atts[k].size_bytes = Some(data[k].size)

\* two data files, the first download fails, the second succeeds, and the
\* body holds a link
C12_Witness ==
  /\ pc = "scanned"
  /\ ~SR.raised
  /\ email.v.attachments = <<ATT_CSV, ATT_CSV2>>
  /\ Len(SR.extracted_assets) >= 3
  /\ ~SR.extracted_assets[1].error.none
  /\ SR.extracted_assets[2].size_bytes = Some(30)
  /\ SR.extracted_assets[3].asset_type = "link"

\* the score of catalog entry i for the scanned message and its assets
ScoreOf(i) == EntryScore(Patterns[i], email.v, SR.extracted_assets).score

\* C13: the matcher returns the entry with the highest score, of several such
\* entries the earliest in the catalog, with that entry's score and factors;
\* the result is a function of catalog, message and assets.
C13_HighestScoreEarliestWins ==
  (pc = "scanned" /\ ~SR.raised /\ SR.route_action # "skip") =>
    /\ \A i \in 1..Len(Patterns) :
         FGt(ScoreOf(i), DZero) =>
           \E w \in 1..Len(Patterns) :
             /\ \A j \in 1..Len(Patterns) : FGe(ScoreOf(w), ScoreOf(j))
             /\ \A j \in 1..(w - 1) : FLt(ScoreOf(j), ScoreOf(w))
             /\ SR.matched_partner = Some(Patterns[w].partner_name)
             /\ SR.pattern_match_confidence = ScoreOf(w)
             /\ SR.classification.matched_patterns
                  = EntryScore(Patterns[w], email.v, SR.extracted_assets).factors
    /\ match(Patterns, email.v, SR.extracted_assets)
         = [raised |-> FALSE, partner |-> SR.matched_partner,
            confidence |-> SR.pattern_match_confidence,
            factors |-> SR.classification.matched_patterns]

\* Scenario E: A and B both score 0.50, A is loaded first and is returned
C13_Witness ==
  /\ pc = "scanned"
  /\ ~SR.raised
  /\ Patterns = <<P_TIE_A, P_TIE_B>>
  /\ ScoreOf(1) = Dbl(268435456, 0)
  /\ ScoreOf(2) = Dbl(268435456, 0)
  /\ SR.matched_partner = Some("A")
  /\ SR.pattern_match_confidence = Dbl(268435456, 0)

\* C14: the matcher returns (None, 0.0, []) exactly when no entry scores
\* above 0; otherwise the partner is an entry's name and the confidence is
\* above 0.
C14_NoMatchIffNoPositiveScore ==
  (pc = "scanned" /\ ~SR.raised /\ SR.route_action # "skip") =>
    IF \A i \in 1..Len(Patterns) : ~FGt(ScoreOf(i), DZero)
    THEN /\ SR.matched_partner = None
         /\ SR.pattern_match_confidence = DZero
         /\ SR.classification.matched_patterns = <<>>
    ELSE /\ \E i \in 1..Len(Patterns) : SR.matched_partner = Some(Patterns[i].partner_name)
         /\ FGt(SR.pattern_match_confidence, DZero)

\* a catalog with entries, none of which scores for the message
C14_Witness ==
  /\ pc = "scanned"
  /\ ~SR.raised
  /\ SR.route_action = "review"
  /\ Len(Patterns) = 2
  /\ \A i \in 1..Len(Patterns) : ScoreOf(i) = DZero
  /\ SR.matched_partner = None
  /\ SR.pattern_match_confidence = DZero

\* the message of Scenario A
IsScenarioA ==
  /\ email.v.subject = SUBJ_A
  /\ BodyOf(email.v) = BODY_A
  /\ email.v.attachments = <<ATT_XLSX>>

ScenarioAExtracted ==
  /\ SR.route_action # "skip"
  /\ Len(SR.extracted_assets) = 1
  /\ SR.extracted_assets[1].asset_type = "attachment"
  /\ SR.extracted_assets[1].filename = Some(ATT_XLSX.filename)

\* C15 as stated: the Scenario A message scores 0.30 + 0.20 + 0.05 + 0.30 with
\* four signals and no other, is DATA_HIGH_CONFIDENCE and is extracted.
C15_ScenarioAScoresFourSignals ==
  (pc = "scanned" /\ IsScenarioA) =>
    /\ classify(email.v).score
         = FAdd(FAdd(FAdd(W_SUBJECT_HIGH, W_DELIVERY), W_METRIC_EACH), DataExtWeight(".xlsx"))
    /\ Len(classify(email.v).factors) = 4
    /\ classify(email.v).classification = "DATA_HIGH_CONFIDENCE"
    /\ (~Blocked /\ ~SR.raised) => ScenarioAExtracted

\* C15 amended: the Scenario A message fires five signals, the medium subject
\* pattern (month and year) among them, scores 1.0 after the clamp, is
\* DATA_HIGH_CONFIDENCE and is extracted.
C15_ScenarioAScoresFiveSignals ==
  (pc = "scanned" /\ IsScenarioA) =>
    /\ classify(email.v).score = DOne
    /\ FGe(RawScore(email.v), DOne)
    /\ classify(email.v).factors
         = << <<"subject_high_match", 2>>, <<"subject_med_match", 2>>,
              <<"body_delivery_phrase", 1>>, <<"body_metrics_mentioned", 1>>,
              <<"attachment_data_file", ATT_XLSX.filename>> >>
    /\ classify(email.v).classification = "DATA_HIGH_CONFIDENCE"
    /\ (~Blocked /\ ~SR.raised) => ScenarioAExtracted

C15_Witness ==
  /\ pc = "scanned"
  /\ IsScenarioA
  /\ ~Blocked
  /\ ~SR.raised
  /\ SR.classification.score = DOne
  /\ ScenarioAExtracted
  /\ ~SR.extracted_assets[1].file_path.none


\* the position, among the assets, of the asset made for attachment i
AssetIndex(m, i) == Cardinality({j \in 1..i : IsDataFile(m.attachments[j])})

\* the outside world behaved as env while the message of this state was scanned
EnvOfThisScan(env) == scan_email(email.v, scanner, RunId, env, <<>>) = SR

\* C16: when the header probe of a downloaded attachment fails, the asset
\* of that attachment is still included with its filename, mime type and size
\* and with a non-empty error field, and scan_email raises nothing
C16_ProbeFailureSetsAssetError ==
  (pc = "scanned" /\ ~Blocked /\ SR.route_action # "skip") =>
    \A env \in Envs(email.v) : \A i \in 1..Len(email.v.attachments) :
      (EnvOfThisScan(env) /\ env[i].download = "ok" /\ IsProbeError(env[i].probe)) =>
        /\ ~SR.raised
        /\ AssetIndex(email.v, i) \in 1..Len(SR.extracted_assets)
        /\ LET asset == SR.extracted_assets[AssetIndex(email.v, i)]
           IN  /\ asset.filename = Some(email.v.attachments[i].filename)
               /\ asset.mime_type = Some(email.v.attachments[i].mime_type)
               /\ asset.size_bytes = Some(email.v.attachments[i].size)
               /\ ~asset.error.none
               /\ asset.error.v # ""


\* the asset extract_assets appends for an attachment whose download raised
ErrorAsset(m, att) ==
  [asset_type |-> "attachment", source_email_id |-> m.message_id,
   filename |-> Some(att.filename), file_path |-> None,
   url |-> None, link_type |-> None, mime_type |-> None, size_bytes |-> None,
   columns |-> None, error |-> Some("download failed")]

DownloadFailed(env) ==
  \E i \in 1..Len(email.v.attachments) :
    IsDataFile(email.v.attachments[i]) /\ env[i].download = "error"

\* the downloads and probes of env are those of the scan of this state
ThisExtraction(x) ==
  /\ x.fs = SR.fs
  /\ ~SR.raised => x.assets = SR.extracted_assets

\* C17: when the download of a data-file attachment raises, extract_assets
\* raises nothing: the attachment gets an asset carrying the error and no
\* path and no columns, every other data-file attachment still gets its
\* asset, the link assets follow, and the message goes on to the matcher and
\* is routed to review or auto_process; an exception that leaves scan_email
\* is the matcher's, never the download's.
C17_DownloadFailureYieldsErrorAsset ==
  (pc = "scanned" /\ ~Blocked /\ (SR.raised \/ SR.route_action # "skip")) =>
    /\ SR.raised => SR.error = "AttributeError"
    /\ \A env \in Envs(email.v) :
         DownloadFailed(env) =>
           LET m    == email.v
               x    == extract_assets(m, scanner.extraction_dir, RunId, env, <<>>)
               nAtt == AssetIndex(m, Len(m.attachments))
           IN  ThisExtraction(x) =>
                 /\ Len(x.assets) >= nAtt
                 /\ \A i \in 1..Len(m.attachments) :
                      IsDataFile(m.attachments[i]) =>
                        IF env[i].download = "error"
                        THEN x.assets[AssetIndex(m, i)] = ErrorAsset(m, m.attachments[i])
                        ELSE /\ x.assets[AssetIndex(m, i)].filename
                                  = Some(m.attachments[i].filename)
                             /\ ~x.assets[AssetIndex(m, i)].file_path.none
                             /\ x.assets[AssetIndex(m, i)].error = None
                 /\ SubSeq(x.assets, nAtt + 1, Len(x.assets))
                      = ExtractLinks(m, BodyOf(m), 1, <<>>)
                 /\ ~SR.raised =>
                      /\ SR.route_action \in {"review", "auto_process"}
                      /\ SR.matched_partner
                           = match(Patterns, m, SR.extracted_assets).partner

\* the first download failed, the second attachment was saved and probed, a
\* link was found, and the message was matched to a partner and routed
C17_Witness ==
  /\ pc = "scanned" /\ ~Blocked /\ ~SR.raised
  /\ email.v.attachments = <<ATT_CSV, ATT_CSV2>>
  /\ Len(SR.extracted_assets) = 3
  /\ SR.extracted_assets[1] = ErrorAsset(email.v, ATT_CSV)
  /\ ~SR.extracted_assets[2].file_path.none
  /\ ~SR.extracted_assets[2].columns.none
  /\ SR.extracted_assets[3].asset_type = "link"
  /\ ~SR.matched_partner.none
  /\ SR.route_action = "auto_process"


\* scan has been called: the run has its accumulator
ScanCalled == results # None

\* the entries of the catalog file, if the file is there and is JSON
FileEntries ==
  IF PATTERNS_PATH \in DOMAIN fs /\ "text" \notin DOMAIN fs[PATTERNS_PATH]
  THEN Get(fs[PATTERNS_PATH], "patterns", <<>>)
  ELSE <<>>

RequiredFields == {"partner_name", "sender_patterns", "auto_process", "confidence_threshold"}

\* the requested catalog file is missing or is not JSON, or one of its
\* entries lacks a required field or has a subject pattern that does not compile
MalformedCatalog ==
  /\ ~args.v.patterns.none
  /\ \/ PATTERNS_PATH \notin DOMAIN fs
     \/ "text" \in DOMAIN fs[PATTERNS_PATH]
     \/ \E i \in 1..Len(FileEntries) :
          \/ ~(RequiredFields \subseteq DOMAIN FileEntries[i])
          \/ \E j \in 1..Len(Get(FileEntries[i], "subject_patterns", <<>>)) :
               ~Compiles(FileEntries[i].subject_patterns[j])

\* C18: with a malformed catalog (missing or unreadable file that was asked
\* for, an entry without sender_patterns, auto_process, confidence_threshold
\* or partner_name, a subject pattern that does not compile) main fails
\* before scan is called.
C18_MalformedCatalogIsFatalAtLoad ==
  (args # None /\ ScanCalled) => ~MalformedCatalog


\* C19: classify and match return for every message, asset list and
\* catalog, so no call of scan_email ends in an exception, and a message
\* without a body is classified like one whose bodies are empty strings.
C19_ClassifyAndMatchAreTotal ==
  pc = "scanned" =>
    /\ ~SR.raised
    /\ \A env \in Envs(email.v) :
         ~match(Patterns, email.v,
                extract_assets(email.v, scanner.extraction_dir, RunId, env, <<>>).assets).raised
    /\ classify([email.v EXCEPT !.body_text = None, !.body_html = None])
         = classify([email.v EXCEPT !.body_text = Some(<<>>), !.body_html = Some(<<>>)])


\* the most messages a cap of n lets through
Cap(n) == IF n < 0 THEN 0 ELSE n

\* C20: in every run emails_scanned never exceeds the max_results argument
\* of scan (a negative argument letting no message through), and no listed
\* message is yielded to the loop more than once.
C20_ScannedAtMostMaxResults ==
  results # None =>
    /\ results.emails_scanned <= Cap(max_results)
    /\ Len(trace) <= Cap(max_results)
    /\ \A i, j \in 1..Len(trace) : trace[i].email_id = trace[j].email_id => i = j


Started(r) == ~runs[r].run_id.none

\* C21: two runs on the same extraction directory have distinct run ids,
\* write below distinct sub-directories, and every file a run has saved
\* still holds the bytes that run wrote.
C21_ConcurrentRunsNeverCollide ==
  pc = "concurrent" =>
    \A r1, r2 \in RunNos :
      (r1 # r2 /\ Started(r1) /\ Started(r2)) =>
        /\ runs[r1].run_id # runs[r2].run_id
        /\ \A i \in 1..Len(runs[r1].saved) : \A j \in 1..Len(runs[r2].saved) :
             runs[r1].saved[i].file_path # runs[r2].saved[j].file_path
        /\ \A i \in 1..Len(runs[r1].saved) :
             fs[runs[r1].saved[i].file_path] = runs[r1].saved[i].bytes


\* the directory of a saved file names the message below the run directory
MessageScoped(path, message_id) == Len(path[1]) >= 3 /\ path[1][3] = message_id

\* C22: every saved attachment lies below a directory named by the run id
\* and by the message id, no two assets share a path, and the file at an
\* asset's path holds that attachment's bytes.
C22_SavedPathsAreRunAndMessageScoped ==
  (pc = "scanned" /\ ~SR.raised) =>
    \A i \in 1..Len(SR.extracted_assets) :
      ~SR.extracted_assets[i].file_path.none =>
        /\ SR.extracted_assets[i].file_path.v[1][2] = RunId
        /\ MessageScoped(SR.extracted_assets[i].file_path.v, email.v.message_id)
        /\ fs[SR.extracted_assets[i].file_path.v][1] = email.v.message_id
        /\ \A j \in 1..Len(SR.extracted_assets) :
             SR.extracted_assets[j].file_path = SR.extracted_assets[i].file_path => i = j


AnyMatch(patterns, text) == \E i \in 1..Len(patterns) : Search(patterns[i], text)

\* the recognized data files of a message, by position
DataFiles(m) == {i \in 1..Len(m.attachments) : IsDataFile(m.attachments[i])}

\* the contribution of each signal group, from the message alone
SubjectPart(m) ==
  AddIf(AnyMatch(MEDIUM_CONF_SUBJECT_PATTERNS, m.subject),
        AddIf(AnyMatch(HIGH_CONF_SUBJECT_PATTERNS, m.subject), DZero, W_SUBJECT_HIGH),
        W_SUBJECT_MED)

MetricsMatched(m) ==
  Cardinality({i \in 1..Len(METRIC_PATTERNS) : Search(METRIC_PATTERNS[i], BodyOf(m))})

BodyPart(m) ==
  AddIf(MetricsMatched(m) > 0,
        AddIf(\E i \in 1..Len(DELIVERY_PHRASES) :
                Contains(LowerStr(BodyOf(m)), DELIVERY_PHRASES[i]),
              DZero, W_DELIVERY),
        FMin(W_METRIC_CAP, FTimesInt(MetricsMatched(m), W_METRIC_EACH)))

AttachmentPart(m) ==
  IF DataFiles(m) = {} THEN DZero
  ELSE DataExtWeight(Lower(Suffix(
         m.attachments[CHOOSE k \in DataFiles(m) : \A j \in DataFiles(m) : k <= j].filename)))

LinkPart(m) == AddIf(AnyMatch(LINK_PATTERNS, BodyOf(m)), DZero, W_LINK)

\* C23: when no skip pattern matches, the score of classify is the sum,
\* clamped to [0, 1], of the subject high and medium weights, the delivery
\* phrase weight, the capped metric weight, the weight of the first
\* recognized attachment only, the link weight, less the reply/forward
\* penalty, each group counted once.
C23_ScoreIsClampedSumOfGroups ==
  (pc = "classified" /\ NoSkipPattern(email.v.subject)) =>
    LET m   == email.v
        sum == FAdd(FAdd(FAdd(SubjectPart(m), BodyPart(m)), AttachmentPart(m)), LinkPart(m))
        raw == IF ReplyForward(m.subject) THEN FSub(sum, W_REPLY_PENALTY) ELSE sum
    IN  /\ cls.v.score = FMax(DZero, FMin(DOne, raw))
        /\ FGe(W_METRIC_CAP, FMin(W_METRIC_CAP, FTimesInt(MetricsMatched(m), W_METRIC_EACH)))

\* a forwarded message with two data files and four metric keywords: the
\* second file adds nothing, the metrics are capped, the penalty is taken
C23_Witness ==
  /\ pc = "classified"
  /\ NoSkipPattern(email.v.subject)
  /\ ReplyForward(email.v.subject)
  /\ Cardinality(DataFiles(email.v)) = 2
  /\ MetricsMatched(email.v) >= 4
  /\ FGt(cls.v.score, DZero)
  /\ FLt(cls.v.score, DOne)


\* the assets that carry column information, by position
WithColumns(assets) == {k \in 1..Len(assets) : ~assets[k].columns.none /\ assets[k].columns.v # <<>>}

\* the expected columns of entry p found, by name and without regard to
\* case, among the columns of one asset
FoundIn(p, asset) ==
  {i \in 1..Len(p.expected_columns.v) :
     \E j \in 1..Len(asset.columns.v) :
       LowerStr(<<p.expected_columns.v[i]>>) = LowerStr(<<asset.columns.v[j]>>)}

\* 0.30 * found / expected against the first asset with columns
ColumnPart(p, assets) ==
  IF p.expected_columns.none \/ p.expected_columns.v = <<>> \/ WithColumns(assets) = {}
  THEN DZero
  ELSE ColScore(Cardinality(FoundIn(p,
                  assets[CHOOSE k \in WithColumns(assets) : \A j \in WithColumns(assets) : k <= j])),
                Len(p.expected_columns.v))

\* some asset's file extension is the expected format
FormatFound(p, assets) ==
  /\ ~p.expected_format.none
  /\ p.expected_format.v # ""
  /\ \E k \in 1..Len(assets) :
       /\ ~assets[k].filename.none
       /\ assets[k].filename.v # <<>>
       /\ LStripDot(Lower(Suffix(assets[k].filename.v))) = LStripDot(Lower(p.expected_format.v))

FourSignalSum(p, m, assets) ==
  FAdd(AddIf(FormatFound(p, assets),
             AddIf(AnyMatch(p.subject_patterns, m.subject),
                   AddIf(\E i \in 1..Len(p.sender_patterns) :
                           GlobSearch(p.sender_patterns[i], m.from_address),
                         DZero, W_SENDER),
                   W_SUBJECT),
             W_FORMAT),
       ColumnPart(p, assets))

\* C24: the score of every catalog entry is 0.30 for a sender match plus
\* 0.20 for a subject match plus 0.20 once if some asset has the expected
\* format plus 0.30 times the fraction of expected columns found in the
\* first asset that carries columns; the confidence returned is that sum for
\* the winning entry.
C24_EntryScoreIsFourSignalSum ==
  (pc = "scanned" /\ ~SR.raised /\ SR.route_action # "skip") =>
    /\ \A i \in 1..Len(Patterns) :
         EntryScore(Patterns[i], email.v, SR.extracted_assets).score
           = FourSignalSum(Patterns[i], email.v, SR.extracted_assets)
    /\ \A i \in 1..Len(Patterns) :
         SR.matched_partner = Some(Patterns[i].partner_name) =>
           \E j \in 1..Len(Patterns) :
             /\ Patterns[j].partner_name = Patterns[i].partner_name
             /\ SR.pattern_match_confidence
                  = FourSignalSum(Patterns[j], email.v, SR.extracted_assets)

\* the entry with all four signals wins; two assets have the expected
\* format and carry different column lists
C24_Witness ==
  /\ pc = "scanned" /\ ~SR.raised
  /\ SR.matched_partner = Some(P_FULL.partner_name)
  /\ SR.classification.matched_patterns
       = <<"sender_match", "subject_pattern_match", "format_match", <<"column_match", 2, 2>> >>
  /\ Cardinality(WithColumns(SR.extracted_assets)) = 2
  /\ SR.extracted_assets[1].columns # SR.extracted_assets[2].columns
  /\ FourSignalSum(P_ACME, email.v, SR.extracted_assets)
       # FourSignalSum(P_ACME, email.v, <<SR.extracted_assets[2]>>)


IsLinkAsset(asset) == asset.asset_type = "link"

TypeIndex(t) == CHOOSE k \in 1..Len(LINK_TYPES) : LINK_TYPES[k] = t

\* C25: the link assets of a message are at most one per link type, in
\* the order google_sheets, dropbox, box, onedrive, s3_presigned, one for
\* exactly each type whose pattern matches the body; each carries the matched
\* text and its type and no file; they do not depend on the downloads, and
\* no file is written for them.
C25_OneLinkAssetPerTypeInOrder ==
  (pc = "scanned" /\ ~SR.raised /\ SR.route_action # "skip") =>
    LET links == SelectSeq(SR.extracted_assets, IsLinkAsset)
        body  == BodyOf(email.v)
    IN  /\ Len(links) <= 5
        /\ \A i \in 1..Len(links) :
             /\ ~links[i].link_type.none
             /\ links[i].link_type.v \in {LINK_TYPES[k] : k \in 1..Len(LINK_TYPES)}
             /\ ~links[i].url.none
             /\ \E t \in 1..Len(body) :
                  /\ Search(LINK_PATTERNS[TypeIndex(links[i].link_type.v)], <<body[t]>>)
                  /\ links[i].url.v = MatchedText(TypeIndex(links[i].link_type.v), body[t])
             /\ links[i].file_path = None
             /\ links[i].filename = None
             /\ links[i].columns = None
             /\ links[i].error = None
        /\ \A i, j \in 1..Len(links) :
             i < j => TypeIndex(links[i].link_type.v) < TypeIndex(links[j].link_type.v)
        /\ \A k \in 1..Len(LINK_TYPES) :
             Search(LINK_PATTERNS[k], body)
               <=> \E i \in 1..Len(links) : links[i].link_type.v = LINK_TYPES[k]
        /\ Cardinality(DOMAIN fs)
             = Cardinality({i \in 1..Len(SR.extracted_assets) :
                              ~SR.extracted_assets[i].file_path.none})
        /\ \A env \in Envs(email.v) :
             SelectSeq(extract_assets(email.v, scanner.extraction_dir, RunId, env, <<>>).assets,
                       IsLinkAsset) = links

\* one dropbox URL in the body gives a dropbox asset and then a box asset,
\* after the attachment assets
C25_Witness ==
  /\ pc = "scanned" /\ ~SR.raised
  /\ Len(SR.extracted_assets) = 4
  /\ SR.extracted_assets[1].asset_type = "attachment"
  /\ SR.extracted_assets[2].asset_type = "attachment"
  /\ SR.extracted_assets[3].link_type = Some("dropbox")
  /\ SR.extracted_assets[4].link_type = Some("box")
  /\ SR.extracted_assets[3].url = Some(UrlDropbox)
  /\ SR.extracted_assets[4].url = Some("box.com/s/abc")


\* C26: the confidence match returns, and the score of every catalog
\* entry, is in [0, 1]: the four signals add at most 0.30 + 0.20 + 0.20 + 0.30
\* and the column part never exceeds 0.30.
C26_ConfidenceInUnitInterval ==
  (pc = "scanned" /\ ~SR.raised) =>
    /\ InUnitInterval(SR.pattern_match_confidence)
    /\ SR.route_action # "skip" =>
         \A i \in 1..Len(Patterns) :
           /\ InUnitInterval(EntryScore(Patterns[i], email.v, SR.extracted_assets).score)
           /\ FGe(W_SENDER, ColumnPart(Patterns[i], SR.extracted_assets))

\* all four signals in full, two assets of the expected format: exactly 1.0
C26_Witness ==
  /\ pc = "scanned" /\ ~SR.raised
  /\ SR.pattern_match_confidence = DOne
  /\ Len(SR.classification.matched_patterns) = 4
  /\ Cardinality({i \in 1..Len(SR.extracted_assets) :
                    FormatFound(P_FULL, <<SR.extracted_assets[i]>>)}) = 2


(***************************************************************************)
(* The run accumulator                                                     *)
(***************************************************************************)

AccumulatorBounds(res) ==
  /\ Len(res.auto_processed) + Len(res.review_queue) <= res.emails_classified_as_data
  /\ res.emails_classified_as_data <= res.emails_scanned
  /\ Len(res.errors) <= res.emails_scanned

NonDecreasing(old, new) ==
  /\ old.emails_scanned <= new.emails_scanned
  /\ old.emails_classified_as_data <= new.emails_classified_as_data
  /\ Len(old.auto_processed) <= Len(new.auto_processed)
  /\ Len(old.review_queue) <= Len(new.review_queue)
  /\ Len(old.errors) <= Len(new.errors)

\* C27: throughout a run of scan the accumulator has |auto_processed| +
\* |review_queue| <= emails_classified_as_data <= emails_scanned and |errors|
\* <= emails_scanned, and no counter and no list length ever decreases.
C27_AccumulatorBoundsAndMonotone ==
  /\ [](results # None => AccumulatorBounds(results))
  /\ [][(results # None) => (results' # None /\ NonDecreasing(results, results'))]_vars

C27_Witness ==
  /\ pc = "returned"
  /\ results.emails_scanned = 2
  /\ results.emails_classified_as_data = 1
  /\ Len(results.auto_processed) + Len(results.review_queue) = 1
  /\ Len(results.errors) = 1


\* the loop body has just handled a message whose processing raised
BodyRaised ==
  /\ pc = "body"
  /\ pc' = "fetching"
  /\ trace'[Len(trace')].outcome = "error"

\* the step added one errors entry for the message and counted it as scanned,
\* and left the queues and the run's identity as they were
OneErrorAdded ==
  /\ results'.emails_scanned = results.emails_scanned + 1
  /\ Len(results'.errors) = Len(results.errors) + 1
  /\ SubSeq(results'.errors, 1, Len(results.errors)) = results.errors
  /\ results'.errors[Len(results'.errors)].email_id = email.v.message_id
  /\ results'.auto_processed = results.auto_processed
  /\ results'.review_queue = results.review_queue
  /\ results'.run_id = results.run_id
  /\ results'.started_at = results.started_at
  /\ results'.completed_at = results.completed_at

Saved == {i \in 1..Len(SR.extracted_assets) : ~SR.extracted_assets[i].file_path.none}

NthSaved(k) == CHOOSE i \in Saved : Cardinality({j \in Saved : j <= i}) = k

\* the payload scan appends for the scanned message
Payload == _format_auto_process_payload(SR, RunId)

\* C29: the raw_sources of an auto-process payload are one entry per asset
\* with a saved file, in asset order; the assets with a saved file are the
\* data-file attachments whose download succeeded, so links and failed
\* downloads add no entry and the list may be empty; partner_name and
\* pattern_match_confidence are the matcher's result for the message.
C29_RawSourcesAreTheSavedFilesInOrder ==
  (pc = "scanned" /\ ~SR.raised /\ SR.route_action = "auto_process") =>
    /\ Len(Payload.raw_sources) = Cardinality(Saved)
    /\ \A k \in 1..Len(Payload.raw_sources) :
         LET asset == SR.extracted_assets[NthSaved(k)]
         IN  /\ Payload.raw_sources[k].payload.path = asset.file_path.v
             /\ Payload.raw_sources[k].source_location = <<email.v.message_id, asset.filename>>
             /\ Payload.raw_sources[k].partner_name = SR.matched_partner
    /\ \A i \in 1..Len(SR.extracted_assets) :
         SR.extracted_assets[i].asset_type = "link" => i \notin Saved
    /\ \A env \in Envs(email.v) :
         ThisExtraction(extract_assets(email.v, scanner.extraction_dir, RunId, env, <<>>)) =>
           \A i \in 1..Len(email.v.attachments) :
             IsDataFile(email.v.attachments[i]) =>
               (AssetIndex(email.v, i) \in Saved <=> env[i].download = "ok")
    /\ LET Same(m) == /\ Payload.partner_name = m.partner
                      /\ Payload.pattern_match_confidence = m.confidence
       IN  Same(match(Patterns, email.v, SR.extracted_assets))

C29_Witness ==
  /\ pc = "scanned" /\ ~SR.raised
  /\ SR.route_action = "auto_process"
  /\ Len(SR.extracted_assets) = 2
  /\ Len(email.v.attachments) = 1
  /\ SR.extracted_assets[1] = ErrorAsset(email.v, email.v.attachments[1])
  /\ SR.extracted_assets[2].asset_type = "link"
  /\ Payload.raw_sources = <<>>
  /\ ~Payload.partner_name.none


(***************************************************************************)
(* Routing and the classifier                                              *)
(***************************************************************************)

\* the classifications with which a message reaches the routing decision
DataBuckets == {"DATA_HIGH_CONFIDENCE", "DATA_MEDIUM_CONFIDENCE", "UNCERTAIN"}

\* C30: for a message that is not blocklisted and not NOT_DATA the route is
\* auto_process or review and is the same whatever bucket the classifier
\* gave: it is determined by the matcher's (partner, confidence), so two
\* such messages with the same (partner, confidence) get the same route, and
\* an UNCERTAIN message can be auto-processed.
C30_RouteDependsOnlyOnMatch ==
  (pc = "scanned" /\ ~SR.raised /\ ~Blocked /\ SR.classification.classification # "NOT_DATA") =>
    /\ SR.classification.classification \in DataBuckets
    /\ SR.route_action \in {"auto_process", "review"}
    /\ \A c \in DataBuckets :
         Route(Patterns, SR.matched_partner, SR.pattern_match_confidence, c) = SR.route_action

C30_Witness ==
  /\ pc = "scanned" /\ ~SR.raised /\ ~Blocked
  /\ SR.classification.classification = "UNCERTAIN"
  /\ SR.route_action = "auto_process"

====
